---------------------------- MODULE Spec2Model ----------------------------
(***************************************************************************)
(* Model of the figma-mcp relay (server/src/index.ts, printed in           *)
(* src/README.md lines 716-2605): the correlation table of forwarded       *)
(* calls, the socket / HTTP-polling delivery paths, the event ring buffer  *)
(* and the channel registry.                                               *)
(***************************************************************************)
EXTENDS Integers, Sequences, FiniteSets, TLC

(***************************************************************************)
(* Program constant: the request timeout (FIGMA_MCP_TIMEOUT_MS, 15000 by   *)
(* default).                                                               *)
(***************************************************************************)
REQUEST_TIMEOUT_MS == 15000

(***************************************************************************)
(* Bounds of the model.  MAX_EVENTS is the capacity of the event buffer,   *)
(* which the source reads from FIGMA_MCP_MAX_EVENTS (200 by default): the  *)
(* model runs the relay configured with a small capacity.                  *)
(***************************************************************************)
MAX_EVENTS == 2
MaxCalls == 2
MaxSockets == 1
MaxTime == 1
MaxAppends == 3
MaxBatchLen == 2
MaxNodes == 2
MaxConnections == 2
MaxRequests == 3

VARIABLES
  activeSocket,   \* let activeSocket: 0 is null, otherwise the socket
  socketId,       \* let socketId
  activeChannel,  \* let activeChannel
  channels,       \* const channels: Set<string>
  requestQueue,   \* const requestQueue: Array<QueuedRequest>
  pending,        \* const pending: the ids that have an entry in the Map
  eventBuffer,    \* const eventBuffer
  timers,         \* the ids whose setTimeout timer is armed (set, not fired, not cleared)
  promise,        \* the promise returned by each sendToPlugin call
  socks,          \* readyState of every socket accepted so far
  sent,           \* the frames socket.send put on each socket
  nextId,         \* how many ids sendToPlugin has drawn
  evSeq,          \* how many event ids handleEventMessage has drawn
  res,            \* the status of the last response to GET /pull (0: none yet)
  pulled,         \* the envelopes GET /pull has returned so far
  toolRes,        \* the last value a tool function returned (or the error it threw)
  batch,          \* the runBatchCalls invocation: its arguments, its loop index i,
                  \* its results, and the id whose promise it awaits
  request,        \* the CallTool request being handled: its tool, its arguments, the
                  \* id whose promise the handler awaits, the envelopes it returned
  fs,             \* the calls made to fs.mkdir and fs.writeFile, in order
  plugin          \* the plugin's main thread: the onmessage invocations that
                  \* reached handleRequest, and the messages posted to the UI

connVars == <<activeSocket, socketId, socks, sent>>
chanVars == <<activeChannel, channels>>
corrVars == <<pending, timers, promise>>
evVars == <<eventBuffer, evSeq>>
queueVars == <<requestQueue, pulled>>
vars == <<activeSocket, socketId, activeChannel, channels, requestQueue, pending,
          eventBuffer, timers, promise, socks, sent, nextId, evSeq, res,
          pulled, toolRes, batch, request, fs, plugin>>

(***************************************************************************)
(* Values.                                                                 *)
(***************************************************************************)
\* message.id when it is not a string (typeof message.id !== "string")
NoId == 0
\* activeSocket === null
NoSocket == 0
\* an optional field: <<>> when absent, <<v>> when present
Absent == << >>
Some(v) == <<v>>
IsSome(o) == Len(o) = 1
Val(o) == o[1]

\* a || b on strings: the empty string is falsy
OrElse(a, b) == IF a = "" THEN b ELSE a

Methods == {"get_selection"}
\* error.message of a reply; "" stands for a missing or empty message
ErrorMessages == {"", "boom"}

(***************************************************************************)
(* Promises: resolve and reject settle a promise only the first time; the  *)
(* model also counts how often the entry's resolve/reject were invoked.    *)
(***************************************************************************)
NewPromise == [state |-> "pending", value |-> "", settles |-> 0]

Settle(p, state, value) ==
  IF p.state = "pending"
  THEN [state |-> state, value |-> value, settles |-> p.settles + 1]
  ELSE [p EXCEPT !.settles = @ + 1]

TimeoutMessage == "Timeout after " \o ToString(REQUEST_TIMEOUT_MS) \o "ms"
DisconnectMessage == "Plugin disconnected"
ReplyErrorMessage(m) == OrElse(Val(m.error), "Plugin error")

(***************************************************************************)
(* Messages the host can send (on a socket or in an HTTP body).            *)
(***************************************************************************)
NoType == ""
BlankMessage ==
  [type |-> NoType, id |-> NoId, result |-> "", error |-> Absent,
   event |-> Absent, payload |-> "", timestamp |-> Absent, channel |-> Absent]

Reply(type, id, error) ==
  [BlankMessage EXCEPT !.type = type, !.id = id, !.result = "R", !.error = error]

Event(type, timestamp, channel) ==
  [BlankMessage EXCEPT !.type = type, !.event = Some("selectionchange"),
                       !.payload = "P", !.timestamp = timestamp, !.channel = channel]

ReplyErrors == {Absent} \cup {Some(x) : x \in ErrorMessages}

\* replies to the ids drawn so far, with and without a type field; a reply
\* whose id is no string; a reply to an id that was never drawn
ReplyBodies(ids) ==
  { Reply("response", i, e) : i \in ids, e \in ReplyErrors }
    \cup { Reply(NoType, i, Absent) : i \in ids }
    \cup { Reply("response", NoId, Absent), Reply("response", Cardinality(ids) + 1, Absent) }

EventBodies(times) ==
  { Event(t, ts, c) : t \in {"event", NoType},
                      ts \in {Absent} \cup {Some(x) : x \in times},
                      c \in {Absent, Some("b")} }

\* a message of another type, and one with no field at all
OtherBodies == { [BlankMessage EXCEPT !.type = "ping"], BlankMessage }

(***************************************************************************)
(* pushEvent                                                               *)
(***************************************************************************)
\* the trim cutting the tail (the newest entries) instead of the head
pushEvent_DropsNewest(buf, entry) ==
  LET pushed == Append(buf, entry)
  IN  IF Len(pushed) > MAX_EVENTS
      THEN SubSeq(pushed, 1, MAX_EVENTS)
      ELSE pushed

pushEvent(buf, entry) ==
  LET pushed == Append(buf, entry)
  IN  IF Len(pushed) > MAX_EVENTS
      THEN SubSeq(pushed, Len(pushed) - MAX_EVENTS + 1, Len(pushed))
      ELSE pushed

(***************************************************************************)
(* handleResponseMessage                                                   *)
(***************************************************************************)
\* the reply handler without clearTimeout(entry.timer)
handleResponseMessage_KeepsTimer(m) ==
  IF m.id = NoId \/ m.id \notin pending
  THEN UNCHANGED corrVars
  ELSE /\ UNCHANGED timers
       /\ pending' = pending \ {m.id}
       /\ promise' = [promise EXCEPT ![m.id] =
                        IF IsSome(m.error)
                        THEN Settle(@, "rejected", ReplyErrorMessage(m))
                        ELSE Settle(@, "resolved", m.result)]

\* the reply handler settling every pending caller with the reply
handleResponseMessage_SettlesAll(m) ==
  IF m.id = NoId \/ m.id \notin pending
  THEN UNCHANGED corrVars
  ELSE /\ timers' = timers \ pending
       /\ pending' = {}
       /\ promise' = [i \in DOMAIN promise |->
                        IF i \notin pending THEN promise[i]
                        ELSE IF IsSome(m.error)
                        THEN Settle(promise[i], "rejected", ReplyErrorMessage(m))
                        ELSE Settle(promise[i], "resolved", m.result)]

\* the reply handler falling back to the oldest entry when the id is unknown
handleResponseMessage_OldestEntry(m) ==
  LET id == IF m.id \in pending \/ pending = {} THEN m.id
            ELSE CHOOSE i \in pending : \A k \in pending : i <= k
  IN  IF id = NoId \/ id \notin pending
      THEN UNCHANGED corrVars
      ELSE /\ timers' = timers \ {id}
           /\ pending' = pending \ {id}
           /\ promise' = [promise EXCEPT ![id] =
                            IF IsSome(m.error)
                            THEN Settle(@, "rejected", ReplyErrorMessage(m))
                            ELSE Settle(@, "resolved", m.result)]

handleResponseMessage(m) ==
  IF m.id = NoId \/ m.id \notin pending
  THEN UNCHANGED corrVars
  ELSE /\ timers' = timers \ {m.id}
       /\ pending' = pending \ {m.id}
       /\ promise' = [promise EXCEPT ![m.id] =
                        IF IsSome(m.error)
                        THEN Settle(@, "rejected", ReplyErrorMessage(m))
                        ELSE Settle(@, "resolved", m.result)]

(***************************************************************************)
(* handleEventMessage                                                      *)
(***************************************************************************)
\* the event handler preferring the channel named in the message
handleEventMessage_MessageChannel(m, channelOverride, dateNow) ==
  IF ~IsSome(m.event)
  THEN UNCHANGED evVars
  ELSE /\ eventBuffer' = pushEvent(eventBuffer,
            [id |-> evSeq + 1,
             event |-> Val(m.event),
             payload |-> m.payload,
             timestamp |-> IF IsSome(m.timestamp) THEN Val(m.timestamp) ELSE dateNow,
             channel |-> IF IsSome(m.channel) THEN Val(m.channel)
                         ELSE OrElse(channelOverride, activeChannel)])
       /\ evSeq' = evSeq + 1

handleEventMessage(m, channelOverride, dateNow) ==
  IF ~IsSome(m.event)
  THEN UNCHANGED evVars
  ELSE /\ eventBuffer' = pushEvent(eventBuffer,
            [id |-> evSeq + 1,
             event |-> Val(m.event),
             payload |-> m.payload,
             timestamp |-> IF IsSome(m.timestamp) THEN Val(m.timestamp) ELSE dateNow,
             channel |-> OrElse(channelOverride, activeChannel)])
       /\ evSeq' = evSeq + 1

(***************************************************************************)
(* wss.on("connection")                                                    *)
(***************************************************************************)
\* the ready announcement carrying the same connectionId on every socket
ReadyFrame_FirstId(id) ==
  [type |-> "ready", server |-> "figma-mcp", version |-> "0.1.0", connectionId |-> 1]

ReadyFrame(id) ==
  [type |-> "ready", server |-> "figma-mcp", version |-> "0.1.0", connectionId |-> id]

Connection ==
  LET id == socketId + 1
  IN  /\ socketId' = id
      /\ activeSocket' = id
      /\ socks' = Append(socks, "OPEN")
      /\ sent' = Append(sent, <<ReadyFrame(id)>>)
      /\ UNCHANGED <<chanVars, corrVars, evVars, queueVars, nextId, res, toolRes, batch, request, fs, plugin>>

(***************************************************************************)
(* socket.on("message")                                                    *)
(***************************************************************************)
SocketOnMessage(m, dateNow) ==
  IF m.type = NoType
  THEN UNCHANGED <<corrVars, evVars>>
  ELSE IF m.type = "response"
       THEN handleResponseMessage(m) /\ UNCHANGED evVars
       ELSE IF m.type = "event"
            THEN handleEventMessage(m, activeChannel, dateNow) /\ UNCHANGED corrVars
            ELSE UNCHANGED <<corrVars, evVars>>

SocketMessage(s, m, dateNow) ==
  /\ socks[s] # "CLOSED"
  /\ UNCHANGED <<connVars, chanVars, queueVars, nextId, res, toolRes, batch, request, fs, plugin>>
  /\ SocketOnMessage(m, dateNow)

(***************************************************************************)
(* socket.on("close"); the socket's readyState is CLOSING between the      *)
(* start of the closing handshake and the close event.                     *)
(***************************************************************************)
SocketClosing(s) ==
  /\ socks[s] = "OPEN"
  /\ socks' = [socks EXCEPT ![s] = "CLOSING"]
  /\ UNCHANGED <<activeSocket, socketId, sent, chanVars, corrVars, evVars,
                 queueVars, nextId, res, toolRes, batch, request, fs, plugin>>

\* the close handler failing only the first entry of the table
FailAllPending_FirstOnly ==
  LET first == {i \in pending : \A k \in pending : i <= k}
  IN  /\ timers' = timers \ first
      /\ pending' = pending \ first
      /\ promise' = [i \in DOMAIN promise |->
                       IF i \in first
                       THEN Settle(promise[i], "rejected", DisconnectMessage)
                       ELSE promise[i]]

FailAllPending ==
  /\ timers' = {}
  /\ pending' = {}
  /\ promise' = [i \in DOMAIN promise |->
                   IF i \in pending
                   THEN Settle(promise[i], "rejected", DisconnectMessage)
                   ELSE promise[i]]

\* the close handler resetting activeSocket whichever socket closed
SocketOnClose_AlwaysResets(s) ==
  /\ activeSocket' = NoSocket
  /\ FailAllPending

\* the close handler failing only the calls transmitted on the socket
SocketOnClose_OwnCalls(s) ==
  LET own == {i \in pending : \E k \in DOMAIN sent[s] :
                sent[s][k].type = "request" /\ sent[s][k].id = i}
  IN  /\ activeSocket' = IF activeSocket = s THEN NoSocket ELSE activeSocket
      /\ timers' = timers \ own
      /\ pending' = pending \ own
      /\ promise' = [i \in DOMAIN promise |->
                       IF i \in own
                       THEN Settle(promise[i], "rejected", DisconnectMessage)
                       ELSE promise[i]]

SocketOnClose(s) ==
  /\ activeSocket' = IF activeSocket = s THEN NoSocket ELSE activeSocket
  /\ FailAllPending

SocketClose(s) ==
  /\ socks[s] # "CLOSED"
  /\ socks' = [socks EXCEPT ![s] = "CLOSED"]
  /\ SocketOnClose(s)
  /\ UNCHANGED <<socketId, sent, chanVars, evVars, queueVars, nextId, res, toolRes, batch, request, fs, plugin>>

(***************************************************************************)
(* sendToPlugin, and the timer callback it arms                            *)
(***************************************************************************)
\* the envelope tagged with the default channel whatever channel is active
Envelope_DefaultChannel(id, method, params) ==
  [type |-> "request", id |-> id, method |-> method, params |-> params,
   channel |-> "default"]

Envelope(id, method, params) ==
  [type |-> "request", id |-> id, method |-> method, params |-> params,
   channel |-> activeChannel]

\* sendToPlugin testing only that a socket is active, not its readyState
sendToPlugin_IgnoresReadyState(method, params) ==
  LET id == nextId + 1
      payload == Envelope(id, method, params)
  IN  /\ nextId' = id
      /\ promise' = Append(promise, NewPromise)
      /\ timers' = timers \cup {id}
      /\ pending' = pending \cup {id}
      /\ IF activeSocket # NoSocket
         THEN /\ sent' = [sent EXCEPT ![activeSocket] = Append(@, payload)]
              /\ UNCHANGED requestQueue
         ELSE /\ requestQueue' = Append(requestQueue, payload)
              /\ UNCHANGED sent

sendToPlugin(method, params) ==
  LET id == nextId + 1
      payload == Envelope(id, method, params)
  IN  /\ nextId' = id
      /\ promise' = Append(promise, NewPromise)
      /\ timers' = timers \cup {id}
      /\ pending' = pending \cup {id}
      /\ IF activeSocket # NoSocket /\ socks[activeSocket] = "OPEN"
         THEN /\ sent' = [sent EXCEPT ![activeSocket] = Append(@, payload)]
              /\ UNCHANGED requestQueue
         ELSE /\ requestQueue' = Append(requestQueue, payload)
              /\ UNCHANGED sent

\* the timer callback without pending.delete(id)
TimerFire_KeepsEntry(id) ==
  /\ timers' = timers \ {id}
  /\ UNCHANGED pending
  /\ promise' = [promise EXCEPT ![id] = Settle(@, "rejected", TimeoutMessage)]

TimerFire(id) ==
  /\ timers' = timers \ {id}
  /\ pending' = pending \ {id}
  /\ promise' = [promise EXCEPT ![id] = Settle(@, "rejected", TimeoutMessage)]

\* the delay of an armed timer elapses at a moment the relay does not choose
Timeout(id) ==
  /\ id \in timers
  /\ TimerFire(id)
  /\ UNCHANGED <<connVars, chanVars, evVars, queueVars, nextId, res, toolRes, batch, request, fs, plugin>>

(***************************************************************************)
(* httpServer: GET /pull, POST /push, POST /event                          *)
(***************************************************************************)
\* GET /pull taking the newest envelope (pop) instead of the oldest (shift)
HttpPull_Pop ==
  /\ IF requestQueue = << >>
     THEN /\ res' = 204
          /\ UNCHANGED queueVars
     ELSE /\ res' = 200
          /\ requestQueue' = SubSeq(requestQueue, 1, Len(requestQueue) - 1)
          /\ pulled' = Append(pulled, requestQueue[Len(requestQueue)])
  /\ UNCHANGED <<connVars, chanVars, corrVars, evVars, nextId, toolRes, batch, request, fs, plugin>>

HttpPull ==
  /\ IF requestQueue = << >>
     THEN /\ res' = 204
          /\ UNCHANGED queueVars
     ELSE /\ res' = 200
          /\ requestQueue' = Tail(requestQueue)
          /\ pulled' = Append(pulled, Head(requestQueue))
  /\ UNCHANGED <<connVars, chanVars, corrVars, evVars, nextId, toolRes, batch, request, fs, plugin>>

\* the two POST paths wired to each other's handler
HttpPostRoute_Swapped(path, m, dateNow) ==
  IF path = "/push"
  THEN handleEventMessage(m, activeChannel, dateNow) /\ UNCHANGED corrVars
  ELSE handleResponseMessage(m) /\ UNCHANGED evVars

\* POST /push settling only the calls that went out through the poll queue
HttpPostRoute_QueuedOnly(path, m, dateNow) ==
  IF path = "/push"
  THEN IF \E k \in DOMAIN pulled : pulled[k].id = m.id
       THEN handleResponseMessage(m) /\ UNCHANGED evVars
       ELSE UNCHANGED <<corrVars, evVars>>
  ELSE handleEventMessage(m, activeChannel, dateNow) /\ UNCHANGED corrVars

HttpPostRoute(path, m, dateNow) ==
  IF path = "/push"
  THEN handleResponseMessage(m) /\ UNCHANGED evVars
  ELSE handleEventMessage(m, activeChannel, dateNow) /\ UNCHANGED corrVars

HttpPost(path, m, dateNow) ==
  /\ UNCHANGED <<connVars, chanVars, queueVars, nextId, res, toolRes, batch, request, fs, plugin>>
  /\ HttpPostRoute(path, m, dateNow)

(***************************************************************************)
(* A tool call that no local handler matches is forwarded.                 *)
(***************************************************************************)
Forward(method) ==
  /\ sendToPlugin(method, "{}")
  /\ UNCHANGED <<activeSocket, socketId, socks, pulled, chanVars, evVars, res, toolRes, batch, request, fs, plugin>>

(***************************************************************************)
(* getEvents.  A null channel and an empty one are both falsy and are used *)
(* only in `if (channel)` and `channel || activeChannel`: both are "".     *)
(***************************************************************************)
getEventsLimit(buf, p) ==
  IF IsSome(p.limit) /\ Val(p.limit) > 0 THEN Val(p.limit) ELSE Len(buf)

ChannelParam(p) == IF IsSome(p.channel) THEN Val(p.channel) ELSE ""

FilterChannel(buf, channel) ==
  IF channel # "" THEN SelectSeq(buf, LAMBDA e : e.channel = channel) ELSE buf

FilterSince(buf, since) ==
  IF IsSome(since) THEN SelectSeq(buf, LAMBDA e : e.timestamp >= Val(since)) ELSE buf

SliceLast(events, limit) ==
  IF limit < Len(events)
  THEN SubSeq(events, Len(events) - limit + 1, Len(events))
  ELSE events

getEventsSelect(buf, p) ==
  SliceLast(FilterSince(FilterChannel(buf, ChannelParam(p)), p.since),
            getEventsLimit(buf, p))

\* `events` is still the eventBuffer array itself: filter and slice each make
\* a new array, and none of them ran
getEventsAliased(buf, p) ==
  /\ ChannelParam(p) = ""
  /\ ~IsSome(p.since)
  /\ ~(getEventsLimit(buf, p) < Len(buf))

getEvents_ClearsChannel(p) ==
  /\ eventBuffer' = IF p.clear
                     THEN IF ChannelParam(p) = "" THEN << >>
                          ELSE SelectSeq(eventBuffer, LAMBDA e : e.channel # ChannelParam(p))
                     ELSE eventBuffer
  /\ toolRes' =
       [tool |-> "get_events",
        channel |-> OrElse(ChannelParam(p), activeChannel),
        total |-> Len(eventBuffer),
        returned |-> Len(getEventsSelect(eventBuffer, p)),
        events |-> getEventsSelect(eventBuffer, p)]

getEvents(p) ==
  /\ eventBuffer' = IF p.clear THEN << >> ELSE eventBuffer
  /\ toolRes' =
       [tool |-> "get_events",
        channel |-> OrElse(ChannelParam(p), activeChannel),
        total |-> Len(eventBuffer),
        returned |-> Len(getEventsSelect(eventBuffer, p)),
        events |-> IF getEventsAliased(eventBuffer, p)
                   THEN eventBuffer'
                   ELSE getEventsSelect(eventBuffer, p)]

(***************************************************************************)
(* clearEvents                                                             *)
(***************************************************************************)
clearEventsKeep_Inverted(buf, channel) ==
  IF channel = "" THEN << >> ELSE SelectSeq(buf, LAMBDA e : e.channel = channel)

clearEventsKeep(buf, channel) ==
  IF channel = "" THEN << >> ELSE SelectSeq(buf, LAMBDA e : e.channel # channel)

clearEvents(p) ==
  /\ eventBuffer' = clearEventsKeep(eventBuffer, ChannelParam(p))
  /\ toolRes' = [tool |-> "clear_events",
                 cleared |-> Len(eventBuffer) - Len(eventBuffer'),
                 channel |-> ChannelParam(p)]

(***************************************************************************)
(* joinChannel, leaveChannel                                               *)
(***************************************************************************)
\* joinChannel switching to the label without recording it as known
joinChannel_NotRegistered(channel) ==
  /\ channels' = channels
  /\ activeChannel' = channel
  /\ toolRes' = [tool |-> "join_channel", channel |-> channel]

joinChannel_OnlyWhenNew(channel) ==
  /\ channels' = channels \cup {channel}
  /\ activeChannel' = IF channel \in channels THEN activeChannel ELSE channel
  /\ toolRes' = [tool |-> "join_channel", channel |-> activeChannel']

joinChannel(channel) ==
  /\ channels' = channels \cup {channel}
  /\ activeChannel' = channel
  /\ toolRes' = [tool |-> "join_channel", channel |-> channel]

\* leaveChannel clearing the channel's events whatever `clear` says
leaveChannel_AlwaysPurges(channel, clear) ==
  /\ channels' = IF channel # "default" THEN channels \ {channel} ELSE channels
  /\ eventBuffer' = clearEventsKeep(eventBuffer, channel)
  /\ activeChannel' = IF activeChannel = channel THEN "default" ELSE activeChannel
  /\ toolRes' = [tool |-> "leave_channel", activeChannel |-> activeChannel',
                 left |-> channel]

leaveChannel_KeepsActive(channel, clear) ==
  /\ channels' = IF channel # "default" THEN channels \ {channel} ELSE channels
  /\ eventBuffer' = IF clear THEN clearEventsKeep(eventBuffer, channel) ELSE eventBuffer
  /\ activeChannel' = activeChannel
  /\ toolRes' = [tool |-> "leave_channel", activeChannel |-> activeChannel',
                 left |-> channel]

leaveChannel_RemovesDefault(channel, clear) ==
  /\ channels' = channels \ {channel}
  /\ eventBuffer' = IF clear THEN clearEventsKeep(eventBuffer, channel) ELSE eventBuffer
  /\ activeChannel' = IF activeChannel = channel THEN "default" ELSE activeChannel
  /\ toolRes' = [tool |-> "leave_channel", activeChannel |-> activeChannel',
                 left |-> channel]

leaveChannel(channel, clear) ==
  /\ channels' = IF channel # "default" THEN channels \ {channel} ELSE channels
  /\ eventBuffer' = IF clear THEN clearEventsKeep(eventBuffer, channel) ELSE eventBuffer
  /\ activeChannel' = IF activeChannel = channel THEN "default" ELSE activeChannel
  /\ toolRes' = [tool |-> "leave_channel", activeChannel |-> activeChannel',
                 left |-> channel]

(***************************************************************************)
(* listChannels: the counts are tallied from the event buffer, one key per *)
(* channel that has an event in it.                                        *)
(***************************************************************************)
listChannelsCounts_KnownOnly(buf, known) ==
  [c \in {buf[k].channel : k \in DOMAIN buf} \cap known |->
     Cardinality({k \in DOMAIN buf : buf[k].channel = c})]

listChannelsCounts(buf, known) ==
  [c \in {buf[k].channel : k \in DOMAIN buf} |->
     Cardinality({k \in DOMAIN buf : buf[k].channel = c})]

listChannels ==
  toolRes' = [tool |-> "list_channels",
              activeChannel |-> activeChannel,
              channels |-> channels,
              counts |-> listChannelsCounts(eventBuffer, channels)]

(***************************************************************************)
(* The CallToolRequestSchema handler, for the tools computed in the relay. *)
(***************************************************************************)
\* typeof args.channel === "string" && args.channel.trim().length > 0
ValidChannel_NoTrim(arg) == IsSome(arg) /\ Val(arg) # ""

ValidChannel(arg) == IsSome(arg) /\ Val(arg) \notin {"", " "}

ChannelError(tool) ==
  [tool |-> tool, isError |-> TRUE, text |-> "channel must be a non-empty string"]

ToolGetEvents(p) ==
  /\ getEvents(p)
  /\ UNCHANGED <<connVars, chanVars, corrVars, queueVars, evSeq, nextId, res, batch, request, fs, plugin>>

ToolClearEvents(p) ==
  /\ clearEvents(p)
  /\ UNCHANGED <<connVars, chanVars, corrVars, queueVars, evSeq, nextId, res, batch, request, fs, plugin>>

ToolJoinChannel(arg) ==
  /\ IF ValidChannel(arg)
     THEN joinChannel(Val(arg))
     ELSE toolRes' = ChannelError("join_channel") /\ UNCHANGED chanVars
  /\ UNCHANGED <<connVars, corrVars, evVars, queueVars, nextId, res, batch, request, fs, plugin>>

ToolLeaveChannel(arg, clear) ==
  /\ IF ValidChannel(arg)
     THEN leaveChannel(Val(arg), clear)
     ELSE toolRes' = ChannelError("leave_channel") /\ UNCHANGED <<chanVars, eventBuffer>>
  /\ UNCHANGED <<connVars, corrVars, queueVars, evSeq, nextId, res, batch, request, fs, plugin>>

ToolListChannels ==
  /\ listChannels
  /\ UNCHANGED <<connVars, chanVars, corrVars, evVars, queueVars, nextId, res, batch, request, fs, plugin>>

(***************************************************************************)
(* executeTool, for the tools computed in the relay: an Error it throws is *)
(* left in toolRes with its message.                                       *)
(***************************************************************************)
LocalTools == {"get_events", "clear_events", "join_channel", "leave_channel", "list_channels"}

executeTool(name, args) ==
  CASE name = "get_events" -> getEvents(args) /\ UNCHANGED chanVars
    [] name = "clear_events" -> clearEvents(args) /\ UNCHANGED chanVars
    [] name = "join_channel" ->
         IF ValidChannel(args.channel)
         THEN joinChannel(Val(args.channel)) /\ UNCHANGED eventBuffer
         ELSE toolRes' = ChannelError(name) /\ UNCHANGED <<chanVars, eventBuffer>>
    [] name = "leave_channel" ->
         IF ValidChannel(args.channel)
         THEN leaveChannel(Val(args.channel), args.clear)
         ELSE toolRes' = ChannelError(name) /\ UNCHANGED <<chanVars, eventBuffer>>
    [] name = "list_channels" -> listChannels /\ UNCHANGED <<chanVars, eventBuffer>>

Threw(r) == "isError" \in DOMAIN r

(***************************************************************************)
(* runBatchCalls.  The function runs until it awaits the promise of a      *)
(* forwarded call; it resumes once that promise is settled.  `alias` marks *)
(* a get_events result whose events list is the eventBuffer array itself:  *)
(* it is read when the results are serialised.                             *)
(***************************************************************************)
\* the loop without `if (stopOnError) break`
BatchFailure_NoBreak(r) ==
  [batch EXCEPT !.results = Append(@, r), !.i = @ + 1, !.status = "running",
                !.awaiting = NoId]

\* the loop leaving at the first failure whatever stopOnError is
BatchFailure_AlwaysBreaks(r) ==
  [batch EXCEPT !.results = Append(@, r), !.broke = TRUE, !.status = "running",
                !.awaiting = NoId]

\* results.push of a failed entry; if (stopOnError) break
BatchFailure(r) ==
  [batch EXCEPT !.results = Append(@, r),
                !.broke = batch.stopOnError,
                !.i = IF batch.stopOnError THEN @ ELSE @ + 1,
                !.status = "running",
                !.awaiting = NoId]

BatchSuccess(r) ==
  [batch EXCEPT !.results = Append(@, r), !.i = @ + 1, !.status = "running",
                !.awaiting = NoId]

\* if (!Array.isArray(params.calls)) throw; otherwise the loop starts at i = 0
runBatchCalls(params) ==
  /\ batch.status = "idle"
  /\ IF ~IsSome(params.calls)
     THEN /\ toolRes' = [tool |-> "batch_calls", isError |-> TRUE,
                         text |-> "calls must be an array"]
          /\ batch' = [batch EXCEPT !.status = "threw"]
     ELSE /\ batch' = [batch EXCEPT !.status = "running", !.calls = Val(params.calls),
                                    !.stopOnError = params.stopOnError]
          /\ UNCHANGED toolRes
  /\ UNCHANGED <<connVars, chanVars, corrVars, evVars, queueVars, nextId, res, request, fs, plugin>>

\* the loop going on to the next entry without awaiting the forwarded call
BatchAwait_NoWait(id) ==
  [batch EXCEPT !.results = Append(@, [index |-> batch.i, ok |-> TRUE,
                                       name |-> Val(batch.calls[batch.i + 1].name),
                                       result |-> "", alias |-> FALSE]),
                !.i = @ + 1]

\* await executeTool(...): the loop is suspended until the promise of the
\* forwarded call is settled
BatchAwait(id) == [batch EXCEPT !.status = "waiting", !.awaiting = id]

\* the loop without the check for a nested batch
IsNestedBatch_Never(call) == FALSE

\* if (call.name === "batch_calls")
IsNestedBatch(call) == Val(call.name) = "batch_calls"

\* one turn of the loop, up to the await of a forwarded call
BatchEntry ==
  /\ batch.status = "running"
  /\ ~batch.broke
  /\ batch.i < Len(batch.calls)
  /\ LET call == batch.calls[batch.i + 1]
     IN  IF ~IsSome(call.name)
         THEN /\ batch' = BatchFailure([index |-> batch.i, ok |-> FALSE,
                                        error |-> "Invalid call.name"])
              /\ UNCHANGED <<connVars, chanVars, corrVars, evVars, queueVars, nextId,
                             res, toolRes, request, fs, plugin>>
         ELSE IF IsNestedBatch(call)
         THEN /\ batch' = BatchFailure([index |-> batch.i, ok |-> FALSE,
                                        error |-> "Nested batch_calls is not supported"])
              /\ UNCHANGED <<connVars, chanVars, corrVars, evVars, queueVars, nextId,
                             res, toolRes, request, fs, plugin>>
         ELSE IF Val(call.name) \in LocalTools
         THEN /\ executeTool(Val(call.name), call.arguments)
              /\ batch' =
                   IF Threw(toolRes')
                   THEN BatchFailure([index |-> batch.i, ok |-> FALSE,
                                      name |-> Val(call.name), error |-> toolRes'.text])
                   ELSE BatchSuccess([index |-> batch.i, ok |-> TRUE,
                                      name |-> Val(call.name), result |-> toolRes',
                                      alias |-> /\ Val(call.name) = "get_events"
                                                /\ getEventsAliased(eventBuffer, call.arguments)])
              /\ UNCHANGED <<connVars, corrVars, queueVars, evSeq, nextId, res, request, fs, plugin>>
         ELSE /\ sendToPlugin(Val(call.name), call.arguments)
              /\ batch' = BatchAwait(nextId + 1)
              /\ UNCHANGED <<activeSocket, socketId, socks, pulled, chanVars, evVars,
                             res, toolRes, request, fs, plugin>>

\* the awaited promise is settled: `await executeTool` returns or throws
BatchSettled ==
  /\ batch.status = "waiting"
  /\ promise[batch.awaiting].state # "pending"
  /\ LET p == promise[batch.awaiting]
         name == Val(batch.calls[batch.i + 1].name)
     IN  batch' = IF p.state = "resolved"
                  THEN BatchSuccess([index |-> batch.i, ok |-> TRUE, name |-> name,
                                     result |-> p.value, alias |-> FALSE])
                  ELSE BatchFailure([index |-> batch.i, ok |-> FALSE, name |-> name,
                                     error |-> p.value])
  /\ UNCHANGED <<connVars, chanVars, corrVars, evVars, queueVars, nextId, res, toolRes, request, fs, plugin>>

\* JSON.stringify of one entry of results
Serialised(r, buf) ==
  IF ~r.ok THEN r
  ELSE [index |-> r.index, ok |-> TRUE, name |-> r.name,
        result |-> IF r.alias THEN [r.result EXCEPT !.events = buf] ELSE r.result]

\* the loop is over: return { total, returned, results }
BatchReturn ==
  /\ batch.status = "running"
  /\ batch.broke \/ batch.i >= Len(batch.calls)
  /\ toolRes' = [tool |-> "batch_calls",
                 total |-> Len(batch.calls),
                 returned |-> Len(batch.results),
                 results |-> [k \in DOMAIN batch.results |->
                                Serialised(batch.results[k], eventBuffer)]]
  /\ batch' = [batch EXCEPT !.status = "done"]
  /\ UNCHANGED <<connVars, chanVars, corrVars, evVars, queueVars, nextId, res, request, fs, plugin>>

\* the continuation of runBatchCalls is a microtask: it runs before the relay
\* takes the next message, request or timer
BatchRunnable ==
  \/ batch.status = "running"
  \/ batch.status = "waiting" /\ promise[batch.awaiting].state # "pending"

(***************************************************************************)
(* normalizeSnapshotInput, diffSnapshots.  A node is a function from its   *)
(* own keys to JSON values; a value is written as its JSON text, except    *)
(* negative zero, a number of its own that JSON.stringify renders as "0".  *)
(* A node whose id is no string has no "id" key here.                      *)
(***************************************************************************)
NegativeZero == "-0"
\* the value of a property the object does not have
Undefined == "undefined"

Get(node, key) == IF key \in DOMAIN node THEN node[key] ELSE Undefined

JSONStringify(value) == IF value = NegativeZero THEN "0" ELSE value

\* node && typeof node.id === "string"
HasStringId(node) == "id" \in DOMAIN node

\* an input is { shape, nodes }: a bare array, an object whose nodes is an
\* array, or anything else
normalizeSnapshotInput(input) ==
  IF input.shape = "array" THEN input.nodes
  ELSE IF input.shape = "wrapper" THEN input.nodes
  ELSE << >>

\* a Map as the sequence of its entries in insertion order
MapHas(map, key) == \E k \in DOMAIN map : map[k].key = key
MapGet(map, key) == map[CHOOSE k \in DOMAIN map : map[k].key = key].value

\* Map.set keeping the value first stored under the key
MapSet_KeepsFirst(map, key, value) ==
  IF MapHas(map, key)
  THEN map
  ELSE Append(map, [key |-> key, value |-> value])

\* Map.set: a key already present keeps its position and takes the new value
MapSet(map, key, value) ==
  IF MapHas(map, key)
  THEN [k \in DOMAIN map |->
          IF map[k].key = key THEN [key |-> key, value |-> value] ELSE map[k]]
  ELSE Append(map, [key |-> key, value |-> value])

RECURSIVE NodeMap(_, _)
NodeMap(nodes, map) ==
  IF nodes = << >> THEN map
  ELSE NodeMap(Tail(nodes),
               IF HasStringId(Head(nodes))
               THEN MapSet(map, Head(nodes).id, Head(nodes))
               ELSE map)

\* the ignore list without its default
IgnoreFields_NoDefault(params) ==
  IF IsSome(params.ignoreFields)
  THEN LET items == Val(params.ignoreFields)
       IN  {items[k].text : k \in {j \in DOMAIN items : items[j].string}}
  ELSE {}

\* params.ignoreFields filtered to its strings, or ["children"]
IgnoreFields(params) ==
  IF IsSome(params.ignoreFields)
  THEN LET items == Val(params.ignoreFields)
       IN  {items[k].text : k \in {j \in DOMAIN items : items[j].string}}
  ELSE {"children"}

\* the fields of one id whose serialisations differ
ChangedFields(beforeNode, afterNode, ignoreFields) ==
  LET keys == DOMAIN beforeNode \cup DOMAIN afterNode
      differing == {key \in keys :
                      /\ key \notin ignoreFields
                      /\ JSONStringify(Get(beforeNode, key))
                           # JSONStringify(Get(afterNode, key))}
  IN  [key \in differing |->
         [before |-> Get(beforeNode, key), after |-> Get(afterNode, key)]]

\* the loop over afterMap pushing the entries beforeMap has
AddedNodes_Inverted(beforeMap, afterMap) ==
  LET added == SelectSeq(afterMap, LAMBDA e : MapHas(beforeMap, e.key))
  IN  [k \in DOMAIN added |-> added[k].value]

\* for (const [id, afterNode] of afterMap.entries()) if (!beforeMap.has(id))
AddedNodes(beforeMap, afterMap) ==
  LET added == SelectSeq(afterMap, LAMBDA e : ~MapHas(beforeMap, e.key))
  IN  [k \in DOMAIN added |-> added[k].value]

\* for (const [id, beforeNode] of beforeMap.entries()) if (!afterMap.has(id))
RemovedNodes(beforeMap, afterMap) ==
  LET removed == SelectSeq(beforeMap, LAMBDA e : ~MapHas(afterMap, e.key))
  IN  [k \in DOMAIN removed |-> removed[k].value]

diffSnapshots(params) ==
  LET beforeNodes == normalizeSnapshotInput(params.before)
      afterNodes == normalizeSnapshotInput(params.after)
      ignoreFields == IgnoreFields(params)
      beforeMap == NodeMap(beforeNodes, << >>)
      afterMap == NodeMap(afterNodes, << >>)
      added == AddedNodes(beforeMap, afterMap)
      removed == RemovedNodes(beforeMap, afterMap)
      both == SelectSeq(beforeMap, LAMBDA e : MapHas(afterMap, e.key))
      diffs == [k \in DOMAIN both |->
                  [id |-> both[k].key,
                   fields |-> ChangedFields(both[k].value,
                                            MapGet(afterMap, both[k].key),
                                            ignoreFields)]]
      changed == SelectSeq(diffs, LAMBDA d : DOMAIN d.fields # {})
  IN  [tool |-> "diff_snapshots",
       addedCount |-> Len(added),
       removedCount |-> Len(removed),
       changedCount |-> Len(changed),
       added |-> added,
       removed |-> removed,
       changed |-> changed]

\* the CallTool handler for diff_snapshots: toTextResult(diffSnapshots(args))
ToolDiffSnapshots ==
  /\ request.status = "idle"
  /\ request.tool = "diff_snapshots"
  /\ toolRes' = diffSnapshots(request.args)
  /\ request' = [request EXCEPT !.status = "done", !.envelopes = @ + 1]
  /\ UNCHANGED <<connVars, chanVars, corrVars, evVars, queueVars, nextId, res, batch, fs, plugin>>

(***************************************************************************)
(* The CallTool handler for a tool no local handler matches: it awaits     *)
(* sendToPlugin and resumes once the promise is settled.                   *)
(***************************************************************************)
toTextResult(tool, value) == [tool |-> tool, text |-> JSONStringify(value)]

\* the catch of the handler: { isError: true, text: err.message }
ErrorEnvelope(tool, message) == [tool |-> tool, isError |-> TRUE, text |-> message]

ToolForward(name, args) ==
  /\ request.status # "waiting"
  /\ sendToPlugin(name, args)
  /\ request' = [status |-> "waiting", tool |-> name, args |-> args,
                 awaiting |-> nextId + 1, envelopes |-> 0]
  /\ UNCHANGED <<activeSocket, socketId, socks, pulled, chanVars, evVars, res,
                 toolRes, batch, fs, plugin>>

\* the handler without its try/catch: a rejection is not turned into an
\* envelope
ToolForwardSettled_NoCatch ==
  /\ request.status = "waiting"
  /\ request.tool # "export_image_to_file"
  /\ promise[request.awaiting].state = "resolved"
  /\ toolRes' = toTextResult(request.tool, promise[request.awaiting].value)
  /\ request' = [request EXCEPT !.status = "done", !.envelopes = @ + 1]
  /\ UNCHANGED <<connVars, chanVars, corrVars, evVars, queueVars, nextId, res, batch, fs, plugin>>

ToolForwardSettled ==
  /\ request.status = "waiting"
  /\ request.tool # "export_image_to_file"
  /\ promise[request.awaiting].state # "pending"
  /\ toolRes' = IF promise[request.awaiting].state = "resolved"
                THEN toTextResult(request.tool, promise[request.awaiting].value)
                ELSE ErrorEnvelope(request.tool, promise[request.awaiting].value)
  /\ request' = [request EXCEPT !.status = "done", !.envelopes = @ + 1]
  /\ UNCHANGED <<connVars, chanVars, corrVars, evVars, queueVars, nextId, res, batch, fs, plugin>>

(***************************************************************************)
(* exportImageToFile.  A path is the sequence of its segments; a data URL  *)
(* is the sequence of its pieces, each a comma or a text without comma.    *)
(***************************************************************************)
PathJoin(dir, filename) == dir \o filename
PathDirname(path) == SubSeq(path, 1, Len(path) - 1)

\* params.outputPath, or dir joined with filename, or null
OutputPath(params) ==
  IF IsSome(params.outputPath) THEN params.outputPath
  ELSE IF IsSome(params.dir) /\ IsSome(params.filename)
       THEN Some(PathJoin(Val(params.dir), Val(params.filename)))
       ELSE Absent

\* !outputPath: null and the empty string are falsy
NoOutputPath(params) ==
  ~IsSome(OutputPath(params)) \/ Val(OutputPath(params)) = << >>

\* the arguments forwarded as they came, path keys included
ExportParamsOf_AllKeys(params) == params

\* params without outputPath, dir and filename
ExportParamsOf(params) == [nodeId |-> params.nodeId]

\* dataUrl.split(",")
RECURSIVE SplitComma(_, _)
SplitComma(pieces, parts) ==
  IF pieces = << >> THEN parts
  ELSE IF Head(pieces) = ","
       THEN SplitComma(Tail(pieces), Append(parts, ""))
       ELSE SplitComma(Tail(pieces), [parts EXCEPT ![Len(parts)] = @ \o Head(pieces)])

\* Buffer.from(text, "base64").length, for the payloads of RenderResults
Base64Length(text) ==
  CASE text = "QUJD" -> 3
    [] text = "world" -> 3
    [] OTHER -> 0

ToolExport(params) ==
  /\ request.status # "waiting"
  /\ IF NoOutputPath(params)
     THEN /\ toolRes' = ErrorEnvelope("export_image_to_file",
                                      "outputPath or dir+filename is required")
          /\ request' = [status |-> "done", tool |-> "export_image_to_file",
                         args |-> params, awaiting |-> NoId, envelopes |-> 1]
          /\ UNCHANGED <<corrVars, requestQueue, sent, nextId>>
     ELSE /\ sendToPlugin("export_node_as_image", ExportParamsOf(params))
          /\ request' = [status |-> "waiting", tool |-> "export_image_to_file",
                         args |-> params, awaiting |-> nextId + 1, envelopes |-> 0]
          /\ UNCHANGED toolRes
  /\ UNCHANGED <<activeSocket, socketId, socks, pulled, chanVars, evVars, res, batch, fs, plugin>>

\* what fs.mkdir and fs.writeFile can do
FsOutcomes == {"written", "mkdir fails", "writeFile fails"}
FsError == "EACCES: permission denied"

ToolExportSettled(outcome) ==
  /\ request.status = "waiting"
  /\ request.tool = "export_image_to_file"
  /\ promise[request.awaiting].state # "pending"
  /\ LET settled == promise[request.awaiting]
         result == settled.value
         outputPath == Val(OutputPath(request.args))
         mkdir == [op |-> "mkdir", path |-> PathDirname(outputPath)]
     IN  IF settled.state = "rejected"
         THEN /\ toolRes' = ErrorEnvelope(request.tool, settled.value)
              /\ UNCHANGED <<fs, plugin>>
         ELSE IF result.type = "null" \/ ~IsSome(result.dataUrl)
         THEN /\ toolRes' = ErrorEnvelope(request.tool,
                                          "export_node_as_image did not return dataUrl")
              /\ UNCHANGED <<fs, plugin>>
         ELSE LET parts == SplitComma(Val(result.dataUrl), <<"">>)
                  writeFile == [op |-> "writeFile", path |-> outputPath,
                                bytes |-> Base64Length(parts[2])]
              IN  IF Len(parts) < 2
                  THEN /\ toolRes' = ErrorEnvelope(request.tool, "Invalid dataUrl")
                       /\ UNCHANGED <<fs, plugin>>
                  ELSE IF outcome = "mkdir fails"
                  THEN /\ toolRes' = ErrorEnvelope(request.tool, FsError)
                       /\ fs' = Append(fs, mkdir)
                       /\ UNCHANGED plugin
                  ELSE IF outcome = "writeFile fails"
                  THEN /\ toolRes' = ErrorEnvelope(request.tool, FsError)
                       /\ fs' = fs \o <<mkdir, writeFile>>
                       /\ UNCHANGED plugin
                  ELSE /\ toolRes' = [tool |-> request.tool,
                                      outputPath |-> outputPath,
                                      bytes |-> Base64Length(parts[2]),
                                      format |-> result.format,
                                      mime |-> result.mime]
                       /\ fs' = fs \o <<mkdir, writeFile>>
                       /\ UNCHANGED plugin
  /\ request' = [request EXCEPT !.status = "done", !.envelopes = @ + 1]
  /\ UNCHANGED <<connVars, chanVars, corrVars, evVars, queueVars, nextId, res, batch>>

\* the continuation of the handler is a microtask, like that of runBatchCalls
RequestRunnable ==
  request.status = "waiting" /\ promise[request.awaiting].state # "pending"

(***************************************************************************)
(* The plugin's main thread (plugin/main.js): figma.ui.onmessage.          *)
(***************************************************************************)
PluginStart == [handlers |-> << >>, posted |-> << >>, delivered |-> 0]

\* what the UI can post to the main thread: requests, with and without
\* params, for a method of the switch and for one that is not in it; a
\* message of another type; null
NullMessage == [null |-> TRUE, type |-> "", id |-> NoId, method |-> "", params |-> Absent]
UiMessage(type, id, method, params) ==
  [null |-> FALSE, type |-> type, id |-> id, method |-> method, params |-> params]

\* an Error with this message, thrown; a value, returned
Thrown(message) == [threw |-> TRUE, value |-> message]
Returned(value) == [threw |-> FALSE, value |-> value]

\* a result the structured clone of postMessage cannot copy
Unclonable == "symbol"

\* handleRequest(method, params): a method of the switch returns what its
\* function returns or throws what it throws; any other method throws
handleRequest(method, params) ==
  IF method \in Methods
  THEN {Returned("R"), Returned(Unclonable), Thrown("boom"), Thrown("")}
  ELSE {Thrown("Unknown method: " \o method)}

\* err && err.message ? err.message : String(err), for an Error
ErrMessage(message) == IF message # "" THEN message ELSE "Error"

ResultResponse(id, result) ==
  [type |-> "response", id |-> id, result |-> Some(result), error |-> Absent]
ErrorResponse(id, message) ==
  [type |-> "response", id |-> id, result |-> Absent,
   error |-> Some([message |-> message])]

\* the handler without its catch block
Respond_NoCatch(id, outcome) ==
  IF outcome.threw \/ outcome.value = Unclonable
  THEN << >>
  ELSE <<ResultResponse(id, outcome.value)>>

\* what the try/catch around `await handleRequest` posts: the result, or, if
\* handleRequest threw or the result could not be posted, the error
Respond(id, outcome) ==
  IF outcome.threw
  THEN <<ErrorResponse(id, ErrMessage(outcome.value))>>
  ELSE IF outcome.value = Unclonable
  THEN <<ErrorResponse(id, "DataCloneError")>>
  ELSE <<ResultResponse(id, outcome.value)>>

\* figma.ui.onmessage up to `await handleRequest(method, params || {})`
onmessage(msg) ==
  /\ plugin' =
       IF msg.null \/ msg.type # "request"
       THEN [plugin EXCEPT !.delivered = @ + 1]
       ELSE [plugin EXCEPT !.delivered = @ + 1,
                           !.handlers = Append(@, [id |-> msg.id,
                                                   method |-> msg.method,
                                                   params |-> OrElse(msg.params, "{}"),
                                                   status |-> "awaiting"])]
  /\ UNCHANGED <<connVars, chanVars, corrVars, evVars, queueVars, nextId, res,
                 toolRes, batch, request, fs>>

\* the rest of the k-th invocation, once handleRequest has settled
onmessageResume(k, outcome) ==
  /\ k \in DOMAIN plugin.handlers
  /\ plugin.handlers[k].status = "awaiting"
  /\ outcome \in handleRequest(plugin.handlers[k].method, plugin.handlers[k].params)
  /\ plugin' = [plugin EXCEPT !.handlers[k].status = "done",
                              !.posted = @ \o Respond(plugin.handlers[k].id, outcome)]
  /\ UNCHANGED <<connVars, chanVars, corrVars, evVars, queueVars, nextId, res,
                 toolRes, batch, request, fs>>

PluginOutcomes ==
  UNION {handleRequest(method, "{}") : method \in Methods \cup {"frobnicate"}}

PluginInputs ==
  { UiMessage("request", 1, "get_selection", Absent),
    UiMessage("request", 1, "frobnicate", Some("P")),
    UiMessage("request", 2, "get_selection", Some("P")),
    UiMessage("config", NoId, "", Absent),
    NullMessage }

PluginDeliver ==
  /\ plugin.delivered < MaxRequests
  /\ \E msg \in PluginInputs : onmessage(msg)

PluginResume ==
  \E k \in 1 .. MaxRequests : \E outcome \in PluginOutcomes : onmessageResume(k, outcome)

(***************************************************************************)
(* Arguments of the tool calls.                                            *)
(***************************************************************************)
ChannelArgs == {Absent, Some(""), Some(" "), Some("default"), Some("a")}

GetEventsParams ==
  [limit : {Absent, Some(0), Some(1), Some(2)},
   since : {Absent, Some(1)},
   clear : BOOLEAN,
   channel : {Absent, Some(""), Some("default"), Some("a")}]

ClearEventsParams == [channel : {Absent, Some(""), Some("default"), Some("a")}]

\* the entries of a batch: a join that succeeds; a join and a leave whose
\* channel is blank or missing; an entry whose name is no string; a nested
\* batch; a call that is forwarded
NoArguments == << >>

BatchCalls ==
  { [name |-> Some("join_channel"), arguments |-> [channel |-> Some("a")]],
    [name |-> Some("join_channel"), arguments |-> [channel |-> Some(" ")]],
    [name |-> Some("leave_channel"), arguments |-> [channel |-> Absent, clear |-> TRUE]],
    [name |-> Absent, arguments |-> NoArguments],
    [name |-> Some("batch_calls"), arguments |-> NoArguments],
    [name |-> Some("get_selection"), arguments |-> NoArguments] }

RECURSIVE SeqsUpTo(_, _)
SeqsUpTo(S, n) ==
  IF n = 0 THEN {<< >>}
  ELSE LET shorter == SeqsUpTo(S, n - 1)
       IN  shorter \cup {Append(q, x) : q \in shorter, x \in S}

BatchParams ==
  [calls : {Absent} \cup {Some(q) : q \in SeqsUpTo(BatchCalls, MaxBatchLen)},
   stopOnError : BOOLEAN]

\* the snapshots given to diff_snapshots: nodes with the same id that differ
\* in a field, differ only in the children field, or hold two numbers with
\* one serialisation; a node with another id; a node without a string id
DiffNodes ==
  { [id |-> "1", x |-> "0", children |-> "[2]"],
    [id |-> "1", x |-> NegativeZero],
    [id |-> "1", x |-> "10"],
    [id |-> "2", x |-> "10"],
    [x |-> "10"] }

SnapshotInputs ==
  { [shape |-> sh, nodes |-> q] :
      sh \in {"array", "wrapper"}, q \in SeqsUpTo(DiffNodes, MaxNodes) }
    \cup { [shape |-> "other", nodes |-> << >>] }

\* ignoreFields: missing, empty, or ["x", <a value that is no string>]
IgnoreLists ==
  { Absent,
    Some(<< >>),
    Some(<< [string |-> TRUE, text |-> "x"], [string |-> FALSE, text |-> "children"] >>) }

DiffParams ==
  [before : SnapshotInputs, after : SnapshotInputs, ignoreFields : IgnoreLists]

\* the arguments of a forwarded call
ForwardArgs == { [nodeId |-> "1:2"], [nodeId |-> "3:4", depth |-> "1"] }

\* the arguments of export_image_to_file
ExportParams ==
  [outputPath : {Absent, Some(<< >>), Some(<<"out", "a.png">>)},
   dir : {Absent, Some(<<"tmp">>)},
   filename : {Absent, Some(<<"b.png">>)},
   nodeId : {"1:2"}]

\* what the host returns for export_node_as_image: null; an object without
\* a string dataUrl; dataUrl without comma; with a comma but no "data:" prefix;
\* a data URL
NullResult == [type |-> "null"]
RenderResult(dataUrl) ==
  [type |-> "object", dataUrl |-> dataUrl, format |-> "PNG", mime |-> "image/png"]

RenderResults ==
  { NullResult,
    RenderResult(Absent),
    RenderResult(Some(<<"nocomma">>)),
    RenderResult(Some(<<"hello", ",", "world">>)),
    RenderResult(Some(<<"data:image/png;base64", ",", "QUJD">>)) }

\* the replies of the host to a render request
RenderReplies(ids) ==
  { [Reply("response", i, Absent) EXCEPT !.result = r] : i \in ids, r \in RenderResults }
    \cup { Reply("response", i, Some("boom")) : i \in ids }

\* the replies of the host to a forwarded call: two results, an error with a
\* message, an error without one
ForwardReplies(ids) ==
  { [Reply("response", i, Absent) EXCEPT !.result = r] : i \in ids, r \in {"R", NegativeZero} }
    \cup { Reply("response", i, Some(e)) : i \in ids, e \in ErrorMessages }

\* no batch_calls invocation yet
NoBatch ==
  [status |-> "idle", calls |-> << >>, stopOnError |-> FALSE, i |-> 0,
   results |-> << >>, broke |-> FALSE, awaiting |-> NoId]

\* no CallTool request with a continuation yet
NoRequest ==
  [status |-> "idle", tool |-> "", args |-> << >>, awaiting |-> NoId, envelopes |-> 0]

\* the module state when the server starts
ServerStart ==
  /\ activeSocket = NoSocket
  /\ socketId = 0
  /\ activeChannel = "default"
  /\ channels = {"default"}
  /\ requestQueue = << >>
  /\ pending = {}
  /\ eventBuffer = << >>
  /\ timers = {}
  /\ promise = << >>
  /\ socks = << >>
  /\ sent = << >>
  /\ nextId = 0
  /\ evSeq = 0
  /\ res = 0
  /\ pulled = << >>
  /\ toolRes = [tool |-> "none"]
  /\ batch = NoBatch
  /\ fs = << >>
  /\ plugin = PluginStart

Init == ServerStart /\ request = NoRequest

\* a diff_snapshots request has arrived with some arguments
InitDiff ==
  /\ ServerStart
  /\ \E p \in DiffParams :
       request = [NoRequest EXCEPT !.tool = "diff_snapshots", !.args = p]


(***************************************************************************)
(* The steps of the relay.  The host sends replies and events on any       *)
(* socket that is not closed, and in HTTP bodies.                          *)
(***************************************************************************)
ReplyMessages == ReplyBodies(1 .. nextId) \cup OtherBodies
EventMessages == EventBodies({0, MaxTime}) \cup OtherBodies
\* what Date.now() may return
Times == 0 .. MaxTime

Connect == socketId < MaxSockets /\ Connection
\* the host connects again, whether or not its earlier socket was closed
Reconnect == socketId < MaxConnections /\ Connection
SocketReply == \E s \in DOMAIN socks : \E m \in ReplyMessages : SocketMessage(s, m, 0)
SocketEvent ==
  /\ evSeq < MaxAppends
  /\ \E s \in DOMAIN socks : \E m \in EventMessages : \E t \in Times :
       (IsSome(m.timestamp) => t = 0) /\ SocketMessage(s, m, t)
BeginClose == \E s \in DOMAIN socks : SocketClosing(s)
Close == \E s \in DOMAIN socks : SocketClose(s)
Call ==
  /\ nextId < MaxCalls
  /\ \E method \in Methods : Forward(method)
TimerExpiry == \E id \in timers : Timeout(id)
PostPush == \E m \in ReplyMessages : HttpPost("/push", m, 0)

CallForward ==
  /\ nextId < MaxCalls
  /\ \E name \in Methods : \E args \in ForwardArgs : ToolForward(name, args)
CallExport ==
  /\ nextId < MaxCalls
  /\ \E params \in ExportParams : ToolExport(params)
\* the client joins a channel other than the default one
JoinOther == ToolJoinChannel(Some("a"))
ExportSettled == \E outcome \in FsOutcomes : ToolExportSettled(outcome)
RenderReply ==
  \E s \in DOMAIN socks : \E m \in RenderReplies(pending) : SocketMessage(s, m, 0)
ForwardReply ==
  \E s \in DOMAIN socks : \E m \in ForwardReplies(pending) : SocketMessage(s, m, 0)

\* the ids whose envelope was transmitted on a socket, and those whose
\* envelope a poller took from GET /pull
SentIds ==
  UNION {{f.id : f \in {g \in {sent[s][k] : k \in DOMAIN sent[s]} : g.type = "request"}} :
           s \in DOMAIN sent}
PulledIds == {pulled[k].id : k \in DOMAIN pulled}

\* the host answers over HTTP a call it received on the socket, and on the
\* socket a call it polled
CrossedPush ==
  \E m \in {r \in ReplyMessages : r.id \in SentIds} : HttpPost("/push", m, 0)
CrossedSocketReply ==
  \E s \in DOMAIN socks :
    \E m \in {r \in ReplyMessages : r.id \in PulledIds} : SocketMessage(s, m, 0)
PostEvent ==
  /\ evSeq < MaxAppends
  /\ \E m \in EventMessages : \E t \in Times :
       (IsSome(m.timestamp) => t = 0) /\ HttpPost("/event", m, t)
CallGetEvents == \E p \in GetEventsParams : ToolGetEvents(p)
CallClearEvents == \E p \in ClearEventsParams : ToolClearEvents(p)
CallJoinChannel == \E arg \in ChannelArgs : ToolJoinChannel(arg)
CallLeaveChannel == \E arg \in ChannelArgs : \E clear \in BOOLEAN : ToolLeaveChannel(arg, clear)
CallListChannels == ToolListChannels
ForwardedIn(calls) ==
  Len(SelectSeq(calls, LAMBDA c : IsSome(c.name) /\ Val(c.name) \notin LocalTools \cup {"batch_calls"}))
CallBatch ==
  \E params \in BatchParams :
     /\ IsSome(params.calls) => nextId + ForwardedIn(Val(params.calls)) <= MaxCalls
     /\ runBatchCalls(params)
\* a batch of join_channel and leave_channel entries only
ChannelCalls ==
  {c \in BatchCalls : IsSome(c.name) /\ Val(c.name) \in {"join_channel", "leave_channel"}}
CallChannelBatch ==
  \E params \in BatchParams :
     /\ IsSome(params.calls)
     /\ \A k \in DOMAIN Val(params.calls) : Val(params.calls)[k] \in ChannelCalls
     /\ runBatchCalls(params)
\* the calls of a client that exercises every way a call can fail: a
\* forwarded call; an export with and without an output path; a batch whose
\* calls are missing, or hold a forwarded entry and one that fails validation
CallAnyForward ==
  /\ nextId < MaxCalls
  /\ ToolForward("get_selection", [nodeId |-> "1:2"])
CallAnyExport ==
  /\ nextId < MaxCalls
  /\ \E params \in {q \in ExportParams : ~IsSome(q.dir) /\ q.outputPath # Some(<< >>)
                                         /\ ~IsSome(q.filename)} :
       ToolExport(params)
FaultBatches ==
  LET forwarded == [name |-> Some("get_selection"), arguments |-> NoArguments]
      invalid == [name |-> Some("join_channel"), arguments |-> [channel |-> Some(" ")]]
  IN  {p \in BatchParams :
         p.calls \in {Absent, Some(<<forwarded>>), Some(<<invalid, forwarded>>)}}
CallFaultBatch ==
  \E params \in FaultBatches :
     /\ IsSome(params.calls) => nextId + ForwardedIn(Val(params.calls)) <= MaxCalls
     /\ runBatchCalls(params)
\* the host answers a pending call with a result or with an error: a render
\* request with a render result, any other call with a plain result
DispatchReply ==
  \E s \in DOMAIN socks : \E id \in pending :
    \E m \in (IF request.status = "waiting" /\ request.awaiting = id
                  /\ request.tool = "export_image_to_file"
               THEN {r \in RenderReplies({id}) :
                       \/ IsSome(r.error)
                       \/ r.result \in {RenderResult(Some(<<"nocomma">>)),
                                        RenderResult(Some(<<"data:image/png;base64", ",", "QUJD">>))}}
               ELSE {r \in ForwardReplies({id}) : r.result = "R"}) :
       SocketMessage(s, m, 0)
\* the event message the plugin posts (emitEvent)
PostPluginEvent ==
  /\ evSeq < MaxAppends
  /\ HttpPost("/event", Event("event", Some(0), Absent), 0)

\* forwarded calls, their delivery and their correlation
NextCalls ==
  \/ Connect
  \/ SocketReply
  \/ BeginClose
  \/ Close
  \/ Call
  \/ TimerExpiry
  \/ HttpPull
  \/ PostPush

SpecCalls == Init /\ [][NextCalls]_vars

\* the timer armed by sendToPlugin fires once its delay has passed, unless
\* it was cleared
FairCalls == SpecCalls /\ \A id \in 1 .. MaxCalls : WF_vars(Timeout(id))

\* several connections of the host, one after the other or at once
NextSockets ==
  \/ Reconnect
  \/ BeginClose
  \/ Close
  \/ Call

SpecSockets == Init /\ [][NextSockets]_vars

\* the plugin's main thread and the messages the UI posts to it
NextPlugin ==
  \/ PluginDeliver
  \/ PluginResume

SpecPlugin == Init /\ [][NextPlugin]_vars

\* handleRequest settles, and the continuation of onmessage then runs
FairPlugin ==
  /\ SpecPlugin
  /\ \A k \in 1 .. MaxRequests :
       WF_vars(\E outcome \in PluginOutcomes : onmessageResume(k, outcome))

\* forwarded calls whose reply comes back on the other path than the one the
\* envelope went out on
NextCrossed ==
  \/ Connect
  \/ Close
  \/ Call
  \/ TimerExpiry
  \/ HttpPull
  \/ CrossedPush
  \/ CrossedSocketReply

SpecCrossed == Init /\ [][NextCrossed]_vars

\* export_image_to_file: the render request, the host's reply, the write
NextExport ==
  \/ ExportSettled
  \/ ~RequestRunnable /\ (CallExport \/ Connect \/ RenderReply \/ Close \/ TimerExpiry)

SpecExport == Init /\ [][NextExport]_vars

\* exports and their replies, with the host connected or not
NextExportCall ==
  \/ ExportSettled
  \/ ~RequestRunnable /\ CallExport
  \/ ~RequestRunnable /\ Connect
  \/ ~RequestRunnable /\ RenderReply

SpecExportCall == Init /\ [][NextExportCall]_vars

\* a forwarded call from the request to the envelope returned to the caller
NextForward ==
  \/ ToolForwardSettled
  \/ ~RequestRunnable /\ (CallForward \/ Connect \/ ForwardReply \/ Close
                            \/ TimerExpiry \/ JoinOther)

SpecForward == Init /\ [][NextForward]_vars

\* the dispatcher: a direct call and a batch of the client, one after the
\* other in either order, each from its arrival to its envelope, while the
\* host connects, answers and disconnects
CallInProgress ==
  request.status = "waiting" \/ batch.status \in {"running", "waiting"}

NextDispatch ==
  \/ ToolForwardSettled
  \/ ExportSettled
  \/ BatchEntry
  \/ BatchSettled
  \/ BatchReturn
  \/ ~CallInProgress /\ request.status = "idle" /\ (CallAnyForward \/ CallAnyExport)
  \/ ~CallInProgress /\ CallFaultBatch
  \/ (~RequestRunnable /\ ~BatchRunnable)
       /\ (Connect \/ DispatchReply \/ Close \/ TimerExpiry)

SpecDispatch == Init /\ [][NextDispatch]_vars

\* a settled promise resumes the function awaiting it, and an armed timer
\* fires once its delay has passed, unless it was cleared
FairDispatch ==
  /\ SpecDispatch
  /\ WF_vars(ToolForwardSettled)
  /\ WF_vars(ExportSettled)
  /\ WF_vars(BatchEntry)
  /\ WF_vars(BatchSettled)
  /\ WF_vars(BatchReturn)
  /\ \A id \in 1 .. MaxCalls : WF_vars(Timeout(id))

\* diff_snapshots applied to the arguments of the request
NextDiff == ToolDiffSnapshots

SpecDiff == InitDiff /\ [][NextDiff]_vars

\* events and channels
NextEvents ==
  \/ PostEvent
  \/ CallGetEvents
  \/ CallClearEvents
  \/ CallJoinChannel
  \/ CallLeaveChannel
  \/ CallListChannels

SpecEvents == Init /\ [][NextEvents]_vars

\* events only arrive
NextAppend ==
  \/ Connect
  \/ SocketEvent
  \/ PostEvent
  \/ CallJoinChannel

SpecAppend == Init /\ [][NextAppend]_vars

\* the host polling over HTTP: it pulls calls and posts replies and events
NextPolling ==
  \/ Call
  \/ HttpPull
  \/ PostPush
  \/ PostEvent

SpecPolling == Init /\ [][NextPolling]_vars

\* a batch and the host
NextBatch ==
  \/ BatchEntry
  \/ BatchSettled
  \/ BatchReturn
  \/ ~BatchRunnable /\ CallBatch
  \/ ~BatchRunnable /\ Connect
  \/ ~BatchRunnable /\ SocketReply
  \/ ~BatchRunnable /\ Close
  \/ ~BatchRunnable /\ TimerExpiry

SpecBatch == Init /\ [][NextBatch]_vars

\* a batch of channel calls, events, and direct channel calls
NextChannels ==
  \/ BatchEntry
  \/ BatchReturn
  \/ ~BatchRunnable /\ CallChannelBatch
  \/ ~BatchRunnable /\ PostPluginEvent
  \/ ~BatchRunnable /\ CallJoinChannel
  \/ ~BatchRunnable /\ CallLeaveChannel

SpecChannels == Init /\ [][NextChannels]_vars

Next ==
  \/ BatchEntry
  \/ BatchSettled
  \/ BatchReturn
  \/ ToolForwardSettled
  \/ ExportSettled
  \/ ToolDiffSnapshots
  \/ (~BatchRunnable /\ ~RequestRunnable)
       /\ (CallBatch \/ CallForward \/ CallExport \/ DispatchReply
             \/ NextCalls \/ NextEvents \/ SocketEvent \/ Reconnect)
  \/ NextPlugin

Spec == Init /\ [][Next]_vars

(***************************************************************************)
(* Properties.                                                             *)
(***************************************************************************)
Issued == 1 .. nextId
Resolved(id) == promise[id].state = "resolved"
Rejected(id, message) == promise[id] = [state |-> "rejected", value |-> message, settles |-> 1]
TimedOut(id) == Rejected(id, TimeoutMessage)
Disconnected(id) == Rejected(id, DisconnectMessage)
SeqIds(q) == [k \in 1 .. Len(q) |-> q[k].id]
Increasing(ids) == \A j, k \in 1 .. Len(ids) : j < k => ids[j] < ids[k]
Range(q) == {q[k] : k \in 1 .. Len(q)}

\* C1: every forwarded call ends in exactly one outcome (success, error or
\* timeout): the resolve/reject of its entry is invoked at most once, a call is
\* pending exactly while it was not invoked, and under FairCalls every issued
\* call is eventually settled, whatever replies, closes and expiries interleave.
ExactlyOneOutcome ==
  /\ [](\A id \in Issued :
          /\ promise[id].settles <= 1
          /\ (promise[id].state = "pending") = (promise[id].settles = 0))
  /\ \A id \in 1 .. MaxCalls :
       [](id \in Issued => <>(id \in Issued /\ promise[id].settles = 1))

ExactlyOneOutcomeWitness ==
  \E i, j \in Issued : Resolved(i) /\ TimedOut(j)

\* C2: the step in which a socket's close event fires (its readyState becomes
\* CLOSED) rejects every call pending before it with "Plugin disconnected",
\* leaves no timer armed and leaves the pending table empty.
CloseFailsAllPending ==
  [][\A s \in DOMAIN socks :
       (socks[s] # "CLOSED" /\ socks'[s] = "CLOSED")
         => /\ pending' = {}
            /\ timers' = {}
            /\ \A id \in pending : promise'[id] =
                 [state |-> "rejected", value |-> DisconnectMessage, settles |-> 1]]_vars

CloseFailsAllPendingWitness ==
  /\ Cardinality({id \in Issued : Disconnected(id)}) >= 2
  /\ pending = {}

\* C3: the timer of a call fires only while the call is still pending (no
\* reply and no close came first); it then removes the entry and rejects the
\* caller with the timeout error that carries REQUEST_TIMEOUT_MS.  A timer is
\* armed exactly for the pending entries, so a reply cancels it, and a settled
\* call is never settled again.
TimeoutRejectsPending ==
  /\ [](timers = pending)
  /\ [][\A id \in Issued :
          /\ Timeout(id) => /\ id \in pending
                            /\ id \notin pending'
                            /\ promise'[id] =
                                 [state |-> "rejected",
                                  value |-> "Timeout after " \o ToString(REQUEST_TIMEOUT_MS) \o "ms",
                                  settles |-> 1]
          /\ promise[id].state # "pending" => promise'[id] = promise[id]]_vars

TimeoutRejectsPendingWitness ==
  \E i, j \in Issued : TimedOut(i) /\ Resolved(j) /\ j \notin timers

\* C4: a reply whose id has no entry in the pending table, arriving on a
\* socket or in POST /push, settles no caller and leaves the pending table,
\* the timers, the poll queue, the event buffer and the channel registry
\* unchanged: in no state can the handling of such a reply change them.
IsReplyStep(m) ==
  \/ HttpPost("/push", m, 0)
  \/ m.type = "response" /\ \E s \in DOMAIN socks : SocketMessage(s, m, 0)

UnknownReplyDropped ==
  \A m \in ReplyMessages :
     m.id \notin pending
       => ~ENABLED (IsReplyStep(m) /\ ~UNCHANGED <<corrVars, queueVars, evVars, chanVars>>)

UnknownReplyDroppedWitness ==
  \E i, j \in Issued : i \notin pending /\ TimedOut(i) /\ j \in pending

\* C5: the envelopes GET /pull has returned, followed by those still queued,
\* are the envelopes sendToPlugin queued, each once and in the order it queued
\* them; a pull returns one envelope, and a pull on an empty queue answers 204
\* and changes nothing else.
QueuedIds == Issued \ UNION {{f.id : f \in {g \in Range(sent[s]) : g.type = "request"}} : s \in DOMAIN sent}

PullIsFifo ==
  /\ [](/\ Increasing(SeqIds(pulled \o requestQueue))
        /\ {e.id : e \in Range(pulled \o requestQueue)} = QueuedIds)
  /\ [][HttpPull =>
          IF requestQueue = << >>
          THEN res' = 204 /\ UNCHANGED <<connVars, chanVars, corrVars, evVars, queueVars,
                                        nextId, toolRes, batch, request, fs, plugin>>
          ELSE /\ res' = 200
               /\ pulled' = Append(pulled, Head(requestQueue))
               /\ requestQueue' = Tail(requestQueue)]_vars

PullIsFifoWitness ==
  /\ Len(pulled) >= 2
  /\ requestQueue = << >>
  /\ res = 204

\* C6 (as amended): POST /push hands its body to the reply handler and POST
\* /event hands it to the event handler whatever the body's type field is; the
\* step has the effect the socket path has on the same message carrying the
\* type "response" (for /push) or "event" (for /event).
HostMessages == ReplyMessages \cup EventMessages

PostRoutedByPath ==
  \A m \in HostMessages :
     /\ ~ENABLED (/\ HttpPost("/push", m, 0)
                  /\ ~SocketOnMessage([m EXCEPT !.type = "response"], 0))
     /\ \A t \in Times :
          ~ENABLED (/\ HttpPost("/event", m, t)
                    /\ ~SocketOnMessage([m EXCEPT !.type = "event"], t))

PostRoutedByPathWitness ==
  /\ \E id \in Issued : Resolved(id)
  /\ eventBuffer # << >>

\* C6 (as stated): a reply body POSTed to /push and an event body POSTed to
\* /event leave the state the same message leaves when it arrives on the socket.
PostRoutedLikeSocket ==
  [][\A m \in HostMessages :
       /\ (m.id # NoId /\ HttpPost("/push", m, 0)) => SocketOnMessage(m, 0)
       /\ \A t \in Times :
            (IsSome(m.event) /\ HttpPost("/event", m, t)) => SocketOnMessage(m, t)]_vars

\* C7 (as amended): an inbound event message that carries an event name is
\* appended to the event buffer tagged with the channel that is active when it
\* arrives; a channel named in the message is ignored.
IsEventStep(m, t) ==
  \/ HttpPost("/event", m, t)
  \/ m.type = "event" /\ \E s \in DOMAIN socks : SocketMessage(s, m, t)

Last(q) == q[Len(q)]

EventTaggedWithActiveChannel ==
  \A m \in EventMessages : \A t \in Times :
     IsSome(m.event)
       => ~ENABLED (/\ IsEventStep(m, t)
                    /\ ~(/\ eventBuffer' # << >>
                          /\ Last(eventBuffer').id = evSeq + 1
                          /\ Last(eventBuffer').channel = activeChannel))

EventTaggedWithActiveChannelWitness ==
  \E e \in Range(eventBuffer) : e.channel = "a"

\* C7 (as stated): the appended event is tagged with the message's own channel
\* when the message specifies one, and with the active channel otherwise.
EventTaggedWithMessageChannel ==
  [][\A m \in EventMessages : \A t \in Times :
       (IsSome(m.event) /\ IsEventStep(m, t))
         => /\ eventBuffer' # << >>
            /\ Last(eventBuffer').channel =
                 IF IsSome(m.channel) THEN Val(m.channel) ELSE activeChannel]_vars

\* C8: when events only arrive, after n appends the buffer holds exactly the
\* min(n, MAX_EVENTS) most recently appended events (the n-th event is the one
\* with id n) in arrival order; its length never exceeds MAX_EVENTS.
Min(a, b) == IF a < b THEN a ELSE b

RingKeepsNewest ==
  /\ Len(eventBuffer) = Min(evSeq, MAX_EVENTS)
  /\ Len(eventBuffer) <= MAX_EVENTS
  /\ \A k \in 1 .. Len(eventBuffer) : eventBuffer[k].id = evSeq - Len(eventBuffer) + k

RingKeepsNewestWitness ==
  /\ evSeq > MAX_EVENTS
  /\ Len(eventBuffer) = MAX_EVENTS

\* the filters of a get_events call, as the claims state them; a channel
\* filter is taken as given when it names a channel (no event carries the
\* empty channel)
ChannelGiven(p) == IsSome(p.channel) /\ Val(p.channel) # ""
Satisfies(e, p) ==
  /\ ChannelGiven(p) => e.channel = Val(p.channel)
  /\ IsSome(p.since) => e.timestamp >= Val(p.since)
LimitGiven(p) == IsSome(p.limit) /\ Val(p.limit) > 0
Matching(buf, p) == SelectSeq(buf, LAMBDA e : Satisfies(e, p))
LastN(q, n) == SubSeq(q, Len(q) - n + 1, Len(q))

\* C9 (as stated): every event get_events returns satisfies every filter that
\* was given, and every buffered event satisfying them is returned unless the
\* limit cut it off.
FiltersSoundAndComplete ==
  [][\A p \in GetEventsParams :
       ToolGetEvents(p)
         => /\ \A e \in Range(toolRes'.events) : Satisfies(e, p)
            /\ \A e \in Range(eventBuffer) :
                 Satisfies(e, p)
                   => \/ e \in Range(toolRes'.events)
                      \/ LimitGiven(p) /\ Len(toolRes'.events) = Val(p.limit)]_vars

\* C10 (as stated): with a positive limit L get_events returns the last
\* min(L, m) of the m matching events in buffer order, and with no limit or a
\* non-positive one all m of them.
LimitKeepsLast ==
  [][\A p \in GetEventsParams :
       ToolGetEvents(p)
         => LET matching == Matching(eventBuffer, p)
                n == IF LimitGiven(p) THEN Min(Val(p.limit), Len(matching))
                     ELSE Len(matching)
            IN  toolRes'.events = LastN(matching, n)]_vars


\* C11: a get_events call with clear = true leaves the event buffer empty,
\* whatever channel, since and limit were given: in no state can such a call
\* end with an event still buffered.
ClearEmptiesBuffer ==
  \A p \in GetEventsParams :
     p.clear => ~ENABLED (ToolGetEvents(p) /\ eventBuffer' # << >>)

ClearEmptiesBufferWitness ==
  /\ toolRes.tool = "get_events"
  /\ toolRes.total >= 2
  /\ toolRes.returned < toolRes.total
  /\ eventBuffer = << >>

\* C12 (as stated): the events list a get_events call with clear = true
\* delivers holds exactly the events that matched before the clear (the last
\* ones, up to the limit), and its length is the reported `returned`.
ClearAfterResult ==
  [][\A p \in GetEventsParams :
       (p.clear /\ ToolGetEvents(p))
         => /\ Len(toolRes'.events) = toolRes'.returned
            /\ toolRes'.events = getEventsSelect(eventBuffer, p)]_vars

\* C13 (as amended): clear_events with a non-empty channel removes exactly the
\* buffered events of that channel, keeps the others in their order and returns
\* the number removed; with no channel, or with the empty string as channel, it
\* removes every event and returns the previous buffer size.
RemainingAfterClear(buf, channel) == SelectSeq(buf, LAMBDA e : e.channel # channel)

ClearEventsByNamedChannel ==
  \A p \in ClearEventsParams :
     ~ENABLED (/\ ToolClearEvents(p)
               /\ ~(IF ChannelGiven(p)
                    THEN /\ eventBuffer' = RemainingAfterClear(eventBuffer, Val(p.channel))
                         /\ toolRes'.cleared = Len(eventBuffer) - Len(eventBuffer')
                    ELSE /\ eventBuffer' = << >>
                         /\ toolRes'.cleared = Len(eventBuffer)))

ClearEventsByNamedChannelWitness ==
  /\ toolRes.tool = "clear_events"
  /\ toolRes.channel = "a"
  /\ toolRes.cleared >= 1
  /\ eventBuffer # << >>

\* C13 (as stated): clear_events with a channel removes exactly the events
\* whose channel equals it and returns the number removed; without a channel it
\* removes every event and returns the previous buffer size.
ClearEventsByChannel ==
  [][\A p \in ClearEventsParams :
       ToolClearEvents(p)
         => IF IsSome(p.channel)
            THEN /\ eventBuffer' = RemainingAfterClear(eventBuffer, Val(p.channel))
                 /\ toolRes'.cleared = Len(eventBuffer) - Len(eventBuffer')
            ELSE /\ eventBuffer' = << >>
                 /\ toolRes'.cleared = Len(eventBuffer)]_vars

\* C14: join_channel with a non-empty label makes the label known and active
\* (a label already known leaves the known set as it was), and list_channels
\* reports the known set and the active channel as they are.
JoinMakesActive ==
  /\ \A arg \in ChannelArgs :
       ValidChannel(arg)
         => ~ENABLED (/\ ToolJoinChannel(arg)
                      /\ ~(/\ Val(arg) \in channels'
                           /\ Val(arg) \in channels => channels' = channels
                           /\ channels \subseteq channels'
                           /\ activeChannel' = Val(arg)
                           /\ toolRes'.channel = Val(arg)))
  /\ ~ENABLED (/\ ToolListChannels
               /\ ~(/\ toolRes'.activeChannel = activeChannel
                    /\ toolRes'.channels = channels))

JoinMakesActiveWitness ==
  /\ toolRes.tool = "list_channels"
  /\ toolRes.activeChannel = "a"
  /\ "a" \in toolRes.channels

\* C15 (as amended): leave_channel on the active label resets the active
\* channel to "default" and removes the label from the known set unless the
\* label is "default", which stays known; leave_channel on a label that is not
\* active leaves the active channel unchanged.
LeaveActiveResets ==
  \A arg \in ChannelArgs : \A clear \in BOOLEAN :
     ValidChannel(arg)
       => ~ENABLED (/\ ToolLeaveChannel(arg, clear)
                    /\ ~(IF activeChannel = Val(arg)
                         THEN /\ activeChannel' = "default"
                              /\ Val(arg) # "default" => Val(arg) \notin channels'
                              /\ Val(arg) = "default" => channels' = channels
                         ELSE activeChannel' = activeChannel))

LeaveActiveResetsWitness ==
  /\ toolRes.tool = "leave_channel"
  /\ "left" \in DOMAIN toolRes
  /\ toolRes.left = "a"
  /\ toolRes.activeChannel = "default"
  /\ "a" \notin channels

\* C15 (as stated): leave_channel on the active label resets the active
\* channel to "default" and removes the label from the known set.
LeaveActiveRemoves ==
  [][\A arg \in ChannelArgs : \A clear \in BOOLEAN :
       (ValidChannel(arg) /\ ToolLeaveChannel(arg, clear))
         => IF activeChannel = Val(arg)
            THEN activeChannel' = "default" /\ Val(arg) \notin channels'
            ELSE activeChannel' = activeChannel]_vars

\* C16: "default" is a known channel in every reachable state, whatever
\* join_channel and leave_channel calls were made.
DefaultAlwaysKnown == "default" \in channels

DefaultAlwaysKnownWitness ==
  /\ toolRes.tool = "leave_channel"
  /\ "left" \in DOMAIN toolRes
  /\ toolRes.left = "default"
  /\ "default" \in channels

\* C18: the counts list_channels returns are, for every channel label, the
\* number of events with that label in the event buffer at the time of the
\* call (a label with no count has no event), so they sum to the buffer length.
EventsOf(buf, label) == Len(SelectSeq(buf, LAMBDA e : e.channel = label))

CountOf(counts, label) == IF label \in DOMAIN counts THEN counts[label] ELSE 0

CountsMatchBuffer ==
  ~ENABLED (/\ ToolListChannels
            /\ ~(\A label \in DOMAIN toolRes'.counts \cup channels
                                \cup {e.channel : e \in Range(eventBuffer)} :
                    CountOf(toolRes'.counts, label) = EventsOf(eventBuffer, label)))

CountsMatchBufferWitness ==
  /\ toolRes.tool = "list_channels"
  /\ evSeq > MAX_EVENTS
  /\ \E label \in DOMAIN toolRes.counts : label \notin channels

\* C17: join_channel and leave_channel with a missing, non-string, empty or
\* blank channel answer with the validation error and leave the known
\* channels, the active channel and the event buffer unchanged, called
\* directly or as an entry of a batch (whose result for the entry is ok: false
\* with the error's message).
ChannelErrorText == "channel must be a non-empty string"

InvalidChannelEntry(call) ==
  /\ IsSome(call.name)
  /\ Val(call.name) \in {"join_channel", "leave_channel"}
  /\ call.arguments.channel \in {Absent, Some(""), Some(" ")}

InvalidChannelRejected ==
  /\ \A arg \in {Absent, Some(""), Some(" ")} :
       /\ ~ENABLED (/\ ToolJoinChannel(arg)
                    /\ ~(/\ toolRes' = [tool |-> "join_channel", isError |-> TRUE,
                                        text |-> ChannelErrorText]
                         /\ UNCHANGED <<chanVars, evVars>>))
       /\ \A clear \in BOOLEAN :
            ~ENABLED (/\ ToolLeaveChannel(arg, clear)
                      /\ ~(/\ toolRes' = [tool |-> "leave_channel", isError |-> TRUE,
                                          text |-> ChannelErrorText]
                           /\ UNCHANGED <<chanVars, evVars>>))
  /\ ~ENABLED (/\ BatchEntry
               /\ InvalidChannelEntry(batch.calls[batch.i + 1])
               /\ ~(/\ Last(batch'.results) =
                         [index |-> batch.i, ok |-> FALSE,
                          name |-> Val(batch.calls[batch.i + 1].name),
                          error |-> ChannelErrorText]
                    /\ UNCHANGED <<chanVars, evVars>>))
  /\ (toolRes.tool = "batch_calls" /\ "results" \in DOMAIN toolRes)
       => \A r \in Range(toolRes.results) :
            InvalidChannelEntry(batch.calls[r.index + 1])
              => ~r.ok /\ r.error = ChannelErrorText

InvalidChannelRejectedWitness ==
  /\ batch.status = "done"
  /\ toolRes.tool = "batch_calls"
  /\ \E r \in Range(toolRes.results) : ~r.ok /\ r.error = ChannelErrorText
  /\ eventBuffer # << >>
  /\ activeChannel = "a"

\* C19: a batch run with stopOnError = true holds results for the entries
\* 0..k in order, where k is the first failing entry (the only one marked
\* ok: false); once an entry failed the loop is left: no further entry is
\* executed or forwarded, and the results returned are those.
IndexedInOrder(results) == \A k \in DOMAIN results : results[k].index = k - 1

StopOnErrorReturnsPrefix ==
  /\ [](batch.stopOnError
          => /\ IndexedInOrder(batch.results)
             /\ \A k \in DOMAIN batch.results :
                  ~batch.results[k].ok => k = Len(batch.results) /\ batch.broke
             /\ batch.status = "done"
                  => /\ toolRes.returned = Len(batch.results)
                     /\ \A k \in DOMAIN batch.results :
                          toolRes.results[k].ok = batch.results[k].ok)
  /\ [][(batch.stopOnError /\ batch.results # << >> /\ ~Last(batch.results).ok)
          => /\ batch'.results = batch.results
             /\ UNCHANGED <<nextId, requestQueue, chanVars, evVars>>
             /\ \A s \in DOMAIN sent :
                  SelectSeq(sent'[s], LAMBDA f : f.type = "request")
                    = SelectSeq(sent[s], LAMBDA f : f.type = "request")]_vars

StopOnErrorReturnsPrefixWitness ==
  /\ batch.status = "done"
  /\ batch.stopOnError
  /\ Len(batch.results) < Len(batch.calls)
  /\ ~Last(batch.results).ok
  /\ toolRes.returned = Len(batch.results)

\* C20: a batch run without stopOnError attempts every entry whatever failed
\* before it: its results are indexed 0, 1, ... in order, one per entry already
\* run, and when it returns there is one per requested entry (returned =
\* total), every forwarded entry was issued and every valid join took effect.
NoStopReturnsAll ==
  ~batch.stopOnError
    => /\ ~batch.broke
       /\ IndexedInOrder(batch.results)
       /\ Len(batch.results) = batch.i
       /\ batch.status = "done"
            => /\ Len(batch.results) = Len(batch.calls)
               /\ toolRes.total = Len(batch.calls)
               /\ toolRes.returned = toolRes.total
               /\ Len(toolRes.results) = toolRes.total
               /\ nextId = ForwardedIn(batch.calls)
               /\ (\E k \in DOMAIN batch.calls :
                     batch.calls[k] = [name |-> Some("join_channel"),
                                       arguments |-> [channel |-> Some("a")]])
                    => "a" \in channels

NoStopReturnsAllWitness ==
  /\ batch.status = "done"
  /\ ~batch.stopOnError
  /\ Len(batch.results) = 2
  /\ ~batch.results[1].ok
  /\ batch.results[2].ok

\* C21: a batch entry named batch_calls is rejected for that entry alone: its
\* turn of the loop appends the result {index, ok: false, error: "Nested
\* batch_calls is not supported"}, issues no call (no id, no envelope, no
\* pending entry), starts no other batch, touches neither channels nor events,
\* and without stopOnError the loop goes on to the next entry, so the batch
\* returns one result per entry.
NestedError == "Nested batch_calls is not supported"

NestedEntryIsNext ==
  /\ batch.status = "running"
  /\ ~batch.broke
  /\ batch.i < Len(batch.calls)
  /\ batch.calls[batch.i + 1].name = Some("batch_calls")

NestedBatchRejected ==
  /\ NestedEntryIsNext
       => ~ENABLED (BatchEntry
                    /\ ~(/\ batch'.results
                              = Append(batch.results,
                                       [index |-> batch.i, ok |-> FALSE,
                                        error |-> NestedError])
                         /\ batch'.calls = batch.calls
                         /\ batch'.status = "running"
                         /\ batch'.awaiting = NoId
                         /\ UNCHANGED <<nextId, requestQueue, sent, corrVars,
                                        chanVars, evVars>>
                         /\ ~batch.stopOnError
                              => batch'.i = batch.i + 1 /\ ~batch'.broke))
  /\ (batch.status = "done" /\ ~batch.stopOnError)
       => /\ Len(batch.results) = Len(batch.calls)
          /\ \A k \in DOMAIN batch.calls :
               batch.calls[k].name = Some("batch_calls")
                 => ~batch.results[k].ok /\ batch.results[k].error = NestedError

NestedBatchRejectedWitness ==
  /\ batch.status = "done"
  /\ ~batch.stopOnError
  /\ Len(batch.calls) = 2
  /\ batch.calls[1].name = Some("batch_calls")
  /\ batch.results[1].error = NestedError
  /\ batch.results[2].ok
  /\ "a" \in channels
  /\ nextId = 0

\* C29: sendToPlugin does one of two things with the new envelope: if an
\* active socket exists and its readyState is OPEN the envelope is appended to
\* what that socket transmitted and the poll queue is unchanged; otherwise the
\* envelope is appended at the tail of the poll queue and nothing is
\* transmitted.  Either way the id is pending with its timer armed and its
\* promise unsettled when the synchronous part of the call ends.
SocketIsOpen == activeSocket # NoSocket /\ socks[activeSocket] = "OPEN"

SendsOrQueues ==
  \A method \in Methods :
    ~ENABLED (Forward(method)
              /\ ~(LET id == nextId + 1
                       e == [type |-> "request", id |-> id, method |-> method,
                             params |-> "{}", channel |-> activeChannel]
                   IN  /\ pending' = pending \cup {id}
                       /\ id \in timers'
                       /\ promise'[id].state = "pending"
                       /\ IF SocketIsOpen
                          THEN /\ sent' = [sent EXCEPT ![activeSocket] = Append(@, e)]
                               /\ requestQueue' = requestQueue
                          ELSE /\ requestQueue' = Append(requestQueue, e)
                               /\ sent' = sent))

\* the first call went out on the socket, the second one was queued although
\* the socket is still the active one: it is closing
SendsOrQueuesWitness ==
  /\ activeSocket # NoSocket
  /\ socks[activeSocket] = "CLOSING"
  /\ nextId = 2
  /\ \E k \in DOMAIN sent[activeSocket] :
       sent[activeSocket][k].type = "request" /\ sent[activeSocket][k].id = 1
  /\ requestQueue # << >>
  /\ Last(requestQueue).id = 2
  /\ 2 \in pending

\* C30: correlation does not depend on the delivery path: a reply POSTed to
\* /push for a pending call whose envelope went out on the socket, and a
\* response message on the socket for a pending call whose envelope was
\* polled, each settle that call and no other: the entry and its timer are
\* removed and the promise is resolved with the result, or rejected with the
\* reply's error, once.
Correlated(m) ==
  /\ pending' = pending \ {m.id}
  /\ timers' = timers \ {m.id}
  /\ promise' = [promise EXCEPT ![m.id] =
                   IF IsSome(m.error)
                   THEN [state |-> "rejected", value |-> ReplyErrorMessage(m),
                         settles |-> @.settles + 1]
                   ELSE [state |-> "resolved", value |-> m.result,
                         settles |-> @.settles + 1]]

CorrelationIgnoresPath ==
  /\ \A m \in ReplyMessages :
       m.id \in pending
         => /\ m.id \in SentIds
                 => ~ENABLED (HttpPost("/push", m, 0) /\ ~Correlated(m))
            /\ (m.id \in PulledIds /\ m.type = "response")
                 => \A s \in DOMAIN socks :
                      ~ENABLED (SocketMessage(s, m, 0) /\ ~Correlated(m))
  /\ \A id \in Issued :
       promise[id].state # "pending"
         => promise[id].settles = 1 /\ id \notin pending /\ id \notin timers

CorrelationIgnoresPathWitness ==
  \E i \in SentIds : \E j \in PulledIds :
    /\ Resolved(i)
    /\ promise[j].state = "rejected"
    /\ promise[j].value = "boom"

\* C27: a tool call whose arguments violate the tool's declared inputSchema is
\* rejected before execution: the caller gets an error envelope and neither
\* the event buffer, the channels, the poll queue nor what was transmitted
\* changes.  Stated for get_events, whose schema declares limit with
\* minimum 1.
GetEventsSchemaViolated(p) == IsSome(p.limit) /\ Val(p.limit) < 1

InvalidArgumentsRejected ==
  \A p \in GetEventsParams :
    GetEventsSchemaViolated(p)
      => ~ENABLED (ToolGetEvents(p)
                   /\ ~(/\ "isError" \in DOMAIN toolRes'
                        /\ toolRes'.isError
                        /\ UNCHANGED <<eventBuffer, chanVars, requestQueue, sent>>))

(***************************************************************************)
(* diff_snapshots: the request's arguments and what was returned           *)
(***************************************************************************)
DiffReturned == request.tool = "diff_snapshots" /\ toolRes.tool = "diff_snapshots"

\* the projections of a side: the nodes of the array given, bare or under
\* `nodes`, that carry a string id
Projections(input) ==
  IF input.shape \in {"array", "wrapper"}
  THEN SelectSeq(input.nodes, LAMBDA n : "id" \in DOMAIN n)
  ELSE << >>

IdsIn(input) == {Projections(input)[k].id : k \in DOMAIN Projections(input)}

LastWithId(input, id) ==
  LET q == Projections(input)
  IN  q[CHOOSE k \in DOMAIN q :
          q[k].id = id /\ \A j \in DOMAIN q : q[j].id = id => j <= k]

\* C22: diffSnapshots given the same snapshot as before and as after, with an
\* empty ignore list, returns addedCount = removedCount = changedCount = 0 and
\* empty added, removed and changed, whatever the snapshot: a bare array or a
\* wrapper, with repeated ids or nodes without id.
DiffOfSameIsEmpty ==
  (/\ DiffReturned
   /\ request.args.before = request.args.after
   /\ request.args.ignoreFields = Some(<< >>))
    => /\ toolRes.addedCount = 0
       /\ toolRes.removedCount = 0
       /\ toolRes.changedCount = 0
       /\ toolRes.added = << >>
       /\ toolRes.removed = << >>
       /\ toolRes.changed = << >>

DiffOfSameIsEmptyWitness ==
  /\ DiffReturned
  /\ request.args.before = request.args.after
  /\ request.args.ignoreFields = Some(<< >>)
  /\ request.args.before.shape = "wrapper"
  /\ Len(request.args.before.nodes) = 2
  /\ IdsIn(request.args.before) = {"1", "2"}
  /\ toolRes.addedCount = 0

\* C23: for every id carried by a projection of both sides, with b and a the
\* (last) projections of that id in before and after: `changed` holds an entry
\* for the id exactly when some field of b or a is not in the ignore list
\* (the strings of ignoreFields, or children when ignoreFields is missing) and
\* has different serialisations in b and a; the entry's fields are exactly
\* those fields, each with its before and after value; `changed` holds
\* nothing else.
Ignored(key) ==
  IF IsSome(request.args.ignoreFields)
  THEN \E k \in DOMAIN Val(request.args.ignoreFields) :
         /\ Val(request.args.ignoreFields)[k].string
         /\ Val(request.args.ignoreFields)[k].text = key
  ELSE key = "children"

Differing(b, a) ==
  {key \in DOMAIN b \cup DOMAIN a :
     ~Ignored(key) /\ JSONStringify(Get(b, key)) # JSONStringify(Get(a, key))}

CommonIds == IdsIn(request.args.before) \cap IdsIn(request.args.after)

ChangedFieldsIff ==
  DiffReturned
    => /\ \A id \in CommonIds :
            LET b == LastWithId(request.args.before, id)
                a == LastWithId(request.args.after, id)
                entries == {k \in DOMAIN toolRes.changed : toolRes.changed[k].id = id}
            IN  IF Differing(b, a) = {}
                THEN entries = {}
                ELSE /\ Cardinality(entries) = 1
                     /\ \A k \in entries :
                          /\ DOMAIN toolRes.changed[k].fields = Differing(b, a)
                          /\ \A key \in Differing(b, a) :
                               toolRes.changed[k].fields[key]
                                 = [before |-> Get(b, key), after |-> Get(a, key)]
       /\ \A k \in DOMAIN toolRes.changed : toolRes.changed[k].id \in CommonIds

\* the two sides hold different nodes for an id, differing in children and in
\* the number x, which serialises the same: nothing is reported
ChangedFieldsIffWitness ==
  /\ DiffReturned
  /\ request.args.ignoreFields = Absent
  /\ toolRes.changed = << >>
  /\ \E id \in CommonIds :
       LET b == LastWithId(request.args.before, id)
           a == LastWithId(request.args.after, id)
       IN  /\ Get(b, "x") # Get(a, "x")
           /\ Get(b, "children") # Get(a, "children")

\* C24 (as stated): added holds exactly the projections of after whose id
\* no projection of before carries, removed exactly those of before whose id
\* no projection of after carries, and the counts are the lengths.
CountsAreLengths ==
  /\ toolRes.addedCount = Len(toolRes.added)
  /\ toolRes.removedCount = Len(toolRes.removed)
  /\ toolRes.changedCount = Len(toolRes.changed)

OnlyIn(side, other) ==
  {n \in Range(Projections(side)) : n.id \notin IdsIn(other)}

AddedAndRemovedAll ==
  DiffReturned
    => /\ Range(toolRes.added) = OnlyIn(request.args.after, request.args.before)
       /\ Range(toolRes.removed) = OnlyIn(request.args.before, request.args.after)
       /\ CountsAreLengths

\* C24 (amended): added holds one projection for each id that occurs in after
\* but not in before, the last projection of after with that id, and removed
\* one for each id that occurs in before but not in after, the last of before
\* with that id; the counts are the lengths.
OnePerId(result, side, other) ==
  LET ids == IdsIn(side) \ IdsIn(other)
  IN  /\ Len(result) = Cardinality(ids)
      /\ Range(result) = {LastWithId(side, id) : id \in ids}

AddedAndRemovedLastPerId ==
  DiffReturned
    => /\ OnePerId(toolRes.added, request.args.after, request.args.before)
       /\ OnePerId(toolRes.removed, request.args.before, request.args.after)
       /\ CountsAreLengths

AddedAndRemovedLastPerIdWitness ==
  /\ DiffReturned
  /\ Len(Projections(request.args.after)) = 2
  /\ IdsIn(request.args.after) = {"1"}
  /\ IdsIn(request.args.before) = {"2"}
  /\ request.args.after.nodes[1] # request.args.after.nodes[2]
  /\ toolRes.added = << request.args.after.nodes[2] >>
  /\ toolRes.removedCount = 1

\* C25: when the render result the export awaited holds no data-URL-shaped
\* string (the prefix data:<mime>;base64, a comma, a base64 payload), the
\* export ends in an error envelope and calls neither fs.mkdir nor
\* fs.writeFile.
HasDataUrl(result) ==
  /\ result.type = "object"
  /\ IsSome(result.dataUrl)
  /\ Len(Val(result.dataUrl)) = 3
  /\ Val(result.dataUrl)[1] = "data:image/png;base64"
  /\ Val(result.dataUrl)[2] = ","
  /\ Val(result.dataUrl)[3] = "QUJD"

ExportRejectsNonDataUrl ==
  (/\ request.status = "waiting"
   /\ request.tool = "export_image_to_file"
   /\ promise[request.awaiting].state = "resolved"
   /\ ~HasDataUrl(promise[request.awaiting].value))
    => ~ENABLED (ExportSettled /\ ~("isError" \in DOMAIN toolRes' /\ fs' = fs))

(***************************************************************************)
(* A forwarded call, from the request to what the caller receives.         *)
(***************************************************************************)
\* the forwarding step transmits or queues one envelope, {type: "request",
\* id, method: name, params: args, channel: the active channel}, and nothing
\* else
ForwardCreatesOneEnvelope ==
  \A name \in Methods : \A args \in ForwardArgs :
    ~ENABLED (ToolForward(name, args)
              /\ ~(LET e == [type |-> "request", id |-> nextId + 1, method |-> name,
                             params |-> args, channel |-> activeChannel]
                   IN  \/ /\ requestQueue' = Append(requestQueue, e)
                          /\ sent' = sent
                       \/ /\ requestQueue' = requestQueue
                          /\ activeSocket # NoSocket
                          /\ sent' = [sent EXCEPT ![activeSocket] = Append(@, e)]))

\* the text the caller is to receive for the error of a reply
ErrorTextFor(m, fallback) ==
  IF fallback /\ Val(m.error) = "" THEN "Plugin error" ELSE Val(m.error)

\* a reply to the call the handler awaits settles its promise with the
\* reply's result or error text, and the handler returns what the promise
\* was settled with: the result serialised, or an error envelope with the text
ForwardOutcome(fallback) ==
  /\ \A m \in ForwardReplies(pending) :
       (request.status = "waiting" /\ m.id = request.awaiting)
         => \A s \in DOMAIN socks :
              ~ENABLED (SocketMessage(s, m, 0)
                        /\ ~(/\ promise'[m.id].state
                                  = IF IsSome(m.error) THEN "rejected" ELSE "resolved"
                             /\ promise'[m.id].value
                                  = IF IsSome(m.error) THEN ErrorTextFor(m, fallback)
                                    ELSE m.result))
  /\ (request.status = "waiting" /\ promise[request.awaiting].state # "pending")
       => ~ENABLED (ToolForwardSettled
                    /\ ~(toolRes' = IF promise[request.awaiting].state = "resolved"
                                    THEN [tool |-> request.tool,
                                          text |-> JSONStringify(promise[request.awaiting].value)]
                                    ELSE [tool |-> request.tool, isError |-> TRUE,
                                          text |-> promise[request.awaiting].value]))

\* C28 (as stated): a call no local handler matches creates one envelope with
\* method = the name, params = the arguments, channel = the active channel at
\* send time; the caller receives the host's result on success, and on
\* failure the host's error message verbatim.
ForwardedVerbatim == ForwardCreatesOneEnvelope /\ ForwardOutcome(FALSE)

\* C28 (amended): as stated, except that on failure the caller receives the
\* host's error message, or "Plugin error" when that message is empty or
\* missing.
ForwardedWithDefaultMessage == ForwardCreatesOneEnvelope /\ ForwardOutcome(TRUE)

ForwardedWithDefaultMessageWitness ==
  /\ request.status = "done"
  /\ request.tool = "get_selection"
  /\ toolRes = [tool |-> "get_selection", isError |-> TRUE, text |-> "Plugin error"]
  /\ activeChannel = "a"
  /\ socks # << >>
  /\ \E k \in DOMAIN sent[1] :
       /\ sent[1][k].type = "request"
       /\ sent[1][k].id = request.awaiting
       /\ sent[1][k].params = request.args
       /\ sent[1][k].channel = "default"

\* C26: every tool call handled by the dispatcher ends in exactly one
\* envelope.  A direct call that awaits the host is eventually answered, and
\* so is a batch, whatever replies, closes and expiries occur; the handler
\* returns one envelope per request, for the tool called, and when the call
\* failed (a validation error, a rejection by the host, a disconnect, a
\* timeout) the envelope is flagged isError and carries the error's message;
\* a batch returns its results, or the error envelope of its own validation,
\* once.
RequestFailure ==
  IF request'.awaiting = NoId
  THEN Some("outputPath or dir+filename is required")
  ELSE IF promise[request'.awaiting].state = "rejected"
       THEN Some(promise[request'.awaiting].value)
       ELSE Absent

DispatchTerminates ==
  /\ [](request.status = "waiting" => <>(request.status = "done"))
  /\ [](batch.status \in {"running", "waiting"} => <>(batch.status = "done"))
  /\ [](request.envelopes = IF request.status = "done" THEN 1 ELSE 0)
  /\ [][(request' # request /\ request'.status = "done")
          => /\ toolRes'.tool = request'.tool
             /\ IsSome(RequestFailure)
                  => /\ "isError" \in DOMAIN toolRes'
                     /\ toolRes'.text = Val(RequestFailure)]_vars
  /\ [][(batch'.status # batch.status /\ batch'.status \in {"done", "threw"})
          => /\ toolRes'.tool = "batch_calls"
             /\ IF batch'.status = "threw"
                THEN /\ "isError" \in DOMAIN toolRes'
                     /\ toolRes'.text = "calls must be an array"
                ELSE /\ "isError" \notin DOMAIN toolRes'
                     /\ toolRes'.returned = Len(batch.results)]_vars
  /\ [][batch.status \in {"done", "threw"} => batch' = batch]_vars

\* a batch whose forwarded entry failed when the socket closed, then a direct
\* call that was queued, never answered, and timed out
DispatchTerminatesWitness ==
  /\ batch.status = "done"
  /\ \E k \in DOMAIN batch.results :
       ~batch.results[k].ok /\ batch.results[k].error = DisconnectMessage
  /\ request.status = "done"
  /\ request.envelopes = 1
  /\ requestQueue # << >>
  /\ toolRes = [tool |-> "get_selection", isError |-> TRUE, text |-> TimeoutMessage]

\* C31: runBatchCalls runs its entries one after another: while the forwarded
\* call of an entry is not settled no further turn of the loop can run, so
\* nothing changes on behalf of the next entry; of the calls the batch
\* issued at most the latest is pending, and an envelope is issued only when
\* every earlier one is settled, which with the FIFO queue gives the host the
\* envelopes in entry order.
BatchIsSequential ==
  /\ (batch.status = "waiting" /\ promise[batch.awaiting].state = "pending")
       => /\ ~ENABLED BatchEntry
          /\ ~ENABLED BatchSettled
          /\ ~ENABLED BatchReturn
          /\ batch.awaiting = nextId
  /\ Cardinality(pending) <= 1
  /\ \A id \in Issued : id < nextId => promise[id].state # "pending"
  /\ Increasing(SeqIds(requestQueue))
  /\ \A s \in DOMAIN sent :
       Increasing(SeqIds(SelectSeq(sent[s], LAMBDA f : f.type = "request")))

\* both entries of a batch were forwarded and answered, the second one after
\* the first
BatchIsSequentialWitness ==
  /\ batch.status = "done"
  /\ nextId = 2
  /\ Len(batch.results) = 2
  /\ batch.results[1].ok /\ batch.results[2].ok
  /\ Resolved(1) /\ Resolved(2)

(***************************************************************************)
(* Several sockets.                                                        *)
(***************************************************************************)
\* C32: a new connection becomes the active socket; the sockets opened before
\* keep their readyState (the relay does not close them) and are sent
\* nothing; the new socket is sent one frame, the ready announcement, whose
\* connectionId is greater than that of every earlier announcement.
ReadyIds(s) ==
  {sent[s][k].connectionId : k \in {j \in DOMAIN sent[s] : sent[s][j].type = "ready"}}

NewConnectionBecomesActive ==
  /\ ~ENABLED (Connection
               /\ ~(/\ activeSocket' = Len(socks) + 1
                    /\ socks' = Append(socks, "OPEN")
                    /\ \A s \in DOMAIN sent : sent'[s] = sent[s]
                    /\ Len(sent') = Len(sent) + 1
                    /\ Len(sent'[Len(sent')]) = 1
                    /\ sent'[Len(sent')][1].type = "ready"
                    /\ \A s \in DOMAIN sent : \A old \in ReadyIds(s) :
                         sent'[Len(sent')][1].connectionId > old))
  /\ \A s, t \in DOMAIN sent :
       s < t => \A a \in ReadyIds(s) : \A b \in ReadyIds(t) : a < b
  /\ \A s \in DOMAIN sent : Cardinality(ReadyIds(s)) = 1

\* the second socket is the active one and the first, never closed, is open
NewConnectionBecomesActiveWitness ==
  /\ Len(socks) = 2
  /\ socks[1] = "OPEN"
  /\ socks[2] = "OPEN"
  /\ activeSocket = 2
  /\ ReadyIds(1) = {1}
  /\ ReadyIds(2) = {2}

\* C39: the close of a socket that is not the active one leaves activeSocket
\* as it is, on the newer socket; the close of the active socket sets it to
\* none; and while it is none a new call is appended to the poll queue and
\* transmitted on no socket, even if an older socket is still open.
CloseOfReplacedKeepsActive ==
  /\ \A s \in DOMAIN socks :
       ~ENABLED (SocketClose(s)
                 /\ ~(activeSocket' = IF s = activeSocket THEN NoSocket
                                      ELSE activeSocket))
  /\ activeSocket = NoSocket
       => \A method \in Methods :
            ~ENABLED (Forward(method)
                      /\ ~(/\ Len(requestQueue') = Len(requestQueue) + 1
                           /\ Last(requestQueue').id = nextId + 1
                           /\ sent' = sent))

\* the replaced socket was closed and the newer one is still active; a call
\* made since went out on it
CloseOfReplacedKeepsActiveWitness ==
  /\ Len(socks) = 2
  /\ socks[1] = "CLOSED"
  /\ socks[2] = "OPEN"
  /\ activeSocket = 2
  /\ Len(sent[2]) = 2
  /\ 2 \in pending

\* C37 (as stated): the close of a socket fails only the calls transmitted
\* on it: a pending call whose envelope was queued, or transmitted on another
\* socket, is still pending after the close.
SentOn(s) ==
  {sent[s][k].id : k \in {j \in DOMAIN sent[s] : sent[s][j].type = "request"}}

CloseFailsOwnCallsOnly ==
  \A s \in DOMAIN socks :
    ~ENABLED (SocketClose(s) /\ ~(pending \ SentOn(s) \subseteq pending'))

\* C37 (amended): the close of a socket fails every pending call: a call
\* whose envelope was queued, or transmitted on another socket, is rejected
\* with "Plugin disconnected" like the calls transmitted on the socket that
\* closed, and none is pending afterwards.
CloseFailsOtherCallsToo ==
  \A s \in DOMAIN socks :
    ~ENABLED (SocketClose(s)
              /\ ~(/\ pending' = {}
                   /\ \A id \in pending \ SentOn(s) :
                        promise'[id] = [state |-> "rejected",
                                        value |-> DisconnectMessage,
                                        settles |-> 1]))

\* the first socket closed while a queued call and a call transmitted on the
\* second socket were pending: both failed, the second socket is still open
CloseFailsOtherCallsTooWitness ==
  /\ Len(socks) = 2
  /\ socks[1] = "CLOSED"
  /\ socks[2] = "OPEN"
  /\ SentOn(1) = {}
  /\ SentOn(2) = {2}
  /\ requestQueue # << >>
  /\ Disconnected(1)
  /\ Disconnected(2)

(***************************************************************************)
(* Leaving a channel and the event buffer.                                 *)
(***************************************************************************)
\* C33: leave_channel with clear = true removes from the event buffer
\* exactly the events tagged with the label and keeps the others in their
\* order; with clear = false it leaves the buffer unchanged.  Events tagged
\* with a label that is not (or no longer) a known channel are still returned
\* by get_events for that label and counted by list_channels.
TaggedWith(buf, label) == {k \in DOMAIN buf : buf[k].channel = label}

UnknownLabels == {eventBuffer[k].channel : k \in DOMAIN eventBuffer} \ channels

LeavePurgesOnlyLabel ==
  /\ \A arg \in ChannelArgs : \A clear \in BOOLEAN :
       ValidChannel(arg)
         => ~ENABLED (/\ ToolLeaveChannel(arg, clear)
                      /\ ~(IF clear
                           THEN /\ TaggedWith(eventBuffer', Val(arg)) = {}
                                /\ eventBuffer' =
                                     SelectSeq(eventBuffer,
                                               LAMBDA e : e.channel # Val(arg))
                           ELSE eventBuffer' = eventBuffer))
  /\ ~ENABLED (/\ ToolListChannels
               /\ ~(\A label \in UnknownLabels :
                      /\ label \in DOMAIN toolRes'.counts
                      /\ toolRes'.counts[label]
                           = Cardinality(TaggedWith(eventBuffer, label))))
  /\ \A p \in GetEventsParams :
       (ChannelParam(p) \in UnknownLabels /\ p.limit = Absent /\ p.since = Absent)
         => ~ENABLED (/\ ToolGetEvents(p)
                      /\ ~(toolRes'.events =
                             SelectSeq(eventBuffer,
                                       LAMBDA e : e.channel = ChannelParam(p))))

\* channel "a" was left and its event is still in the buffer, next to an
\* event of another channel
LeavePurgesOnlyLabelWitness ==
  /\ toolRes.tool = "leave_channel"
  /\ "left" \in DOMAIN toolRes
  /\ toolRes.left = "a"
  /\ "a" \notin channels
  /\ TaggedWith(eventBuffer, "a") # {}
  /\ TaggedWith(eventBuffer, "default") # {}

\* C35: the active channel is a known channel in every state reached by
\* join_channel and leave_channel calls, made directly or in a batch.
ActiveChannelIsKnown == activeChannel \in channels

\* the active channel was left: "default" is active again, the label is gone
ActiveChannelIsKnownWitness ==
  /\ toolRes.tool = "leave_channel"
  /\ "left" \in DOMAIN toolRes
  /\ toolRes.left = "a"
  /\ toolRes.activeChannel = "default"
  /\ activeChannel = "default"
  /\ channels = {"default"}

(***************************************************************************)
(* export_image_to_file: the path and the forwarded call.                  *)
(***************************************************************************)
\* C34: export_image_to_file called without outputPath and without both dir
\* and filename answers "outputPath or dir+filename is required" and has no
\* other effect: no call is registered, nothing is sent or queued, no timer
\* is armed, nothing is written.  Called with a path (a non-empty outputPath,
\* or dir and filename) it registers one call and sends or queues one
\* envelope, export_node_as_image, whose params are the arguments without
\* outputPath, dir and filename; it writes nothing before the reply, and the
\* rest of the handler makes no further call.
PathKeys == {"outputPath", "dir", "filename"}

PathMissing(params) ==
  ~IsSome(params.outputPath) /\ ~(IsSome(params.dir) /\ IsSome(params.filename))

PathGiven(params) ==
  \/ IsSome(params.outputPath) /\ Val(params.outputPath) # << >>
  \/ ~IsSome(params.outputPath) /\ IsSome(params.dir) /\ IsSome(params.filename)

NewEnvelopes ==
  {requestQueue'[k] : k \in DOMAIN requestQueue' \ DOMAIN requestQueue}
    \cup UNION {{sent'[s][k] : k \in DOMAIN sent'[s] \ DOMAIN sent[s]} : s \in DOMAIN sent}

NewEnvelopeCount ==
  Len(requestQueue') - Len(requestQueue)
    + (IF activeSocket # NoSocket
       THEN Len(sent'[activeSocket]) - Len(sent[activeSocket]) ELSE 0)

PullReturnsPendingOnly ==
  ~ENABLED (/\ HttpPull
            /\ res' = 200
            /\ Last(pulled').id \notin pending)

(***************************************************************************)
(* Several calls in flight.                                                *)
(***************************************************************************)
\* C38: with several calls pending at once, a reply (on a socket or in POST
\* /push) to a pending id settles the caller of that id, with the reply's
\* result, or with its error when it carries one, and settles no other
\* caller: every other call stays as it was, pending or settled, with its
\* timer; this holds whatever the order of the replies.
ReplySettlesOwnCallerOnly ==
  \A m \in ReplyMessages :
     m.id \in pending
       => ~ENABLED (/\ IsReplyStep(m)
                    /\ ~(/\ promise'[m.id].state
                              = IF IsSome(m.error) THEN "rejected" ELSE "resolved"
                         /\ IsSome(m.error)
                              => promise'[m.id].value = ReplyErrorMessage(m)
                         /\ ~IsSome(m.error) => promise'[m.id].value = m.result
                         /\ \A other \in Issued \ {m.id} :
                              /\ promise'[other] = promise[other]
                              /\ (other \in pending') = (other \in pending)
                              /\ (other \in timers') = (other \in timers)))

\* two calls were in flight on the socket; the second was answered first,
\* with an error, and the first is still pending
ReplySettlesOwnCallerOnlyWitness ==
  /\ nextId = 2
  /\ socks = <<"OPEN">>
  /\ Len(sent[1]) = 3
  /\ pending = {1}
  /\ Rejected(2, "boom")
  /\ promise[1].state = "pending"

(***************************************************************************)
(* The plugin answers every request once.                                  *)
(***************************************************************************)
\* C40: for every "request" message delivered to the plugin's main thread
\* the plugin posts one "response" with the request's id and no more: at any
\* time the responses posted with an id are as many as the requests with that
\* id whose handler has finished, and under FairPlugin every delivered
\* request's handler finishes.  A response holds a result or an error with a
\* message, never both and never neither; a request for a method that is not
\* in the switch is answered with an error response.  A message that is not
\* a request is answered with nothing.
RequestsWith(id, status) ==
  Cardinality({k \in DOMAIN plugin.handlers :
                 plugin.handlers[k].id = id /\ plugin.handlers[k].status \in status})

ResponsesWith(id) ==
  Cardinality({k \in DOMAIN plugin.posted : plugin.posted[k].id = id})

WellFormedResponse(m) ==
  /\ m.type = "response"
  /\ IsSome(m.result) # IsSome(m.error)
  /\ IsSome(m.error) => DOMAIN Val(m.error) = {"message"}

OneResponsePerRequest ==
  /\ [](/\ \A k \in DOMAIN plugin.posted :
             /\ WellFormedResponse(plugin.posted[k])
             /\ RequestsWith(plugin.posted[k].id, {"done"}) > 0
        /\ \A k \in DOMAIN plugin.handlers :
             ResponsesWith(plugin.handlers[k].id)
               = RequestsWith(plugin.handlers[k].id, {"done"}))
  /\ [][\A k \in DOMAIN plugin.handlers : \A outcome \in PluginOutcomes :
          onmessageResume(k, outcome)
            => /\ Len(plugin'.posted) = Len(plugin.posted) + 1
               /\ Last(plugin'.posted).id = plugin.handlers[k].id
               /\ plugin.handlers[k].method \notin Methods
                    => IsSome(Last(plugin'.posted).error)]_vars
  /\ [][\A msg \in PluginInputs :
          (onmessage(msg) /\ (msg.null \/ msg.type # "request"))
            => UNCHANGED <<plugin.handlers, plugin.posted>>]_vars
  /\ \A k \in 1 .. MaxRequests :
       [](Len(plugin.handlers) >= k
            => <>(/\ Len(plugin.handlers) >= k
                  /\ plugin.handlers[k].status = "done"
                  /\ ResponsesWith(plugin.handlers[k].id)
                       = RequestsWith(plugin.handlers[k].id, {"done"})))

\* two requests with the same id and one with another were delivered and
\* answered: a result, the error of an unknown method, an error thrown
OneResponsePerRequestWitness ==
  /\ Len(plugin.handlers) = 3
  /\ \A k \in 1 .. 3 : plugin.handlers[k].status = "done"
  /\ ResponsesWith(1) = 2
  /\ ResponsesWith(2) = 1
  /\ \E k \in DOMAIN plugin.posted :
       plugin.posted[k] = ErrorResponse(1, "Unknown method: frobnicate")
  /\ \E k \in DOMAIN plugin.posted : plugin.posted[k] = ResultResponse(1, "R")
  /\ \E k \in DOMAIN plugin.posted : plugin.posted[k] = ErrorResponse(2, "Error")

=============================================================================
